---- MODULE Spec2Model ----
(***************************************************************************)
(* Model of assistant-server.js (src/unnamed/part_001): the job            *)
(* orchestrator (POST /generateProject, GET /getDeploymentStatus and the   *)
(* background task processGenerateAndDeploy), the code-block extraction,   *)
(* the scaffold materializer and the deployment adapter.                   *)
(*                                                                         *)
(* Granularity.  Node runs one callback at a time: a handler or the        *)
(* continuation of an `await` runs to its next `await` without any other   *)
(* handler in between.  Each action below is one such run: the completion  *)
(* of the external call a task waits on, together with all the code up to  *)
(* the next external call.  A state of the model is therefore a state that *)
(* another handler (a query, another job) can find.                        *)
(***************************************************************************)
EXTENDS Integers, Sequences, FiniteSets, TLC

\* ------------------------------------------------------------------ bounds
\* number of accepted submissions in one run
MaxJobs == 2
\* the same, in the specifications that add the clients' requests (SpecHttp)
\* or fairness (SpecFair)
MaxFewJobs == 1
\* the number of fenced blocks of a raw text (SpecExtract)
MaxBlocks == 3
MaxSignalBlocks == 2
\* the number of blocks of a raw text given by its fences (SpecScan)
MaxFenced == 2
\* the readings of the clock (SpecClock)
MaxTime == 3
\* stands for MAX_POLLING_ATTEMPTS = 300 (part_001:36), scaled down
MAX_POLLING_ATTEMPTS == 2

\* ------------------------------------------------------------------ values
\* crypto.randomBytes(8).toString('hex'): 16 hex digits.  The model's id space
\* holds one id per submission and one that is never allocated.
IdName(n) == "id" \o ToString(n)
Ids == {IdName(n) : n \in 1..(MaxJobs + 1)}
\* a request without the jobId parameter
NoId == "none"

validProviders == {"openai", "gemini", "claude"}
Providers == validProviders \cup {"bogus"}
Prompts == {"", "counter app"}

NonTerminal == {"pending", "generating", "scaffolding", "deploying"}
Terminal == {"completed", "completed_without_deployment", "deployment_failed", "failed"}
Statuses == NonTerminal \cup Terminal

\* a JavaScript value that may be undefined: {} is undefined, {v} is v
Undefined == {}
Some(v) == {v}
Val(o) == CHOOSE v \in o : TRUE

\* a directory: its files, as a set of <<path, content>> pairs
Keys(m) == {e[1] : e \in m}
Get(m, k) == (CHOOSE e \in m : e[1] = k)[2]
Put(m, k, v) == {e \in m : e[1] # k} \cup {<<k, v>>}

\* a JavaScript object used as a mapping: its entries <<key, value>> in
\* insertion order (the order of Object.keys and Object.entries); assigning to
\* a key it has keeps the key's place
ObjectKeys(o) == {o[i][1] : i \in 1..Len(o)}
ObjectGet(o, k) == o[CHOOSE i \in 1..Len(o) : o[i][1] = k][2]
\* mutant: an assignment to a key the object has is dropped
ObjectSet_KeepFirst(o, k, v) ==
  IF k \in ObjectKeys(o) THEN o ELSE Append(o, <<k, v>>)

ObjectSet(o, k, v) ==
  IF k \in ObjectKeys(o)
  THEN [i \in 1..Len(o) |-> IF o[i][1] = k THEN <<k, v>> ELSE o[i]]
  ELSE Append(o, <<k, v>>)

\* ------------------------------------------------------------------ generation output
\* A backend's raw text: the keywords its prose holds and its fenced blocks in
\* text order.  A block: the language tag (Undefined when absent), the filename
\* directive adjacent to the opening fence (Undefined when absent) and the
\* text between the fences, after the directive.
Block(lang, explicit, code) == [lang |-> lang, explicit |-> explicit, code |-> code]

CodeApp == "import './Card.css'; export default () => null;"
CodeCss == ".app { margin: 0 }"
CodeMain == "/* filename: src/main.jsx */ render()"
CodeCssPadded == "  .app { margin: 0 }\n\n"
CodeVercel == "{ projectId: prj_1, orgId: team_1 }"
\* a content with a template literal, its two backticks written as (BT)
CodeTemplate == "const title = (BT)Hello, world(BT);"
ProseNext == "Then the entry point:"
Blank == "\n\n"

\* String.prototype.trim, for the block contents of the model
Trim(code) ==
  CASE code = CodeCssPadded -> CodeCss
    [] code = Blank -> ""
    [] OTHER -> code

\* the string holds a backtick character
HasBacktick(code) == code = CodeTemplate

TextNone == [prose |-> {"sorry"}, blocks |-> <<>>]
TextApp == [prose |-> {}, blocks |-> <<Block(Some("jsx"), Some("src/App.jsx"), CodeApp)>>]
TextTailwind ==
  [prose |-> {"tailwind"},
   blocks |-> <<Block(Some("jsx"), Some("src/App.jsx"), CodeApp),
                Block(Some("css"), Undefined, CodeCss),
                Block(Undefined, Undefined, CodeMain),
                Block(Some("json"), Some(".vercel/project.json"), CodeVercel)>>]
RawTexts == {TextNone, TextApp, TextTailwind}

\* the raw texts handed to the extraction on its own: up to MaxBlocks blocks,
\* with or without a language tag, a filename directive, a first-line
\* filename comment, padding
BlockLangs == {Undefined, Some("js")}
BlockNames == {Undefined, Some("file2.js"), Some("src/App.jsx"), Some("./src/App.jsx")}
BlockCodes == {CodeApp, CodeMain, CodeCssPadded}
Blocks == {Block(l, e, c) : l \in BlockLangs, e \in BlockNames, c \in BlockCodes}

\* the raw texts that carry the signals of the metadata inference: keywords in
\* the prose, in any case, a package.json block, a TypeScript block
PkgNext == "{ dependencies: { next: 14 } }"
PkgTailwind == "{ devDependencies: { tailwindcss: 3 } }"
PkgEnv == "{ scripts: { dev: NEXT_TELEMETRY_DISABLED=1 vite } }"
Keywords == {"TypeScript", "tailwind", "Next.js"}
SignalBlocks ==
  {Block(l, e, c) : l \in {Undefined, Some("ts")}, e \in {Undefined, Some("package.json")},
                    c \in {CodeApp, PkgNext, PkgTailwind, PkgEnv}}

Responses ==
  {[prose |-> {}, blocks |-> b] : b \in UNION {[1..n -> Blocks] : n \in 0..MaxBlocks}}
    \cup {[prose |-> p, blocks |-> b] :
            p \in SUBSET Keywords, b \in UNION {[1..n -> SignalBlocks] : n \in 0..MaxSignalBlocks}}

\* A raw text may also be given by its fences: segments[i] is the text that
\* follows the i-th fence, up to the next fence or the end of the text, as
\* the language tag and the filename directive it starts with (if any) and
\* the rest.  The texts of FencedTexts are well formed: up to MaxFenced blocks
\* with a tag and a directive, their paths pairwise distinct, each followed by
\* text outside the blocks.
FencedPaths ==
  {"src/App.jsx", "src/main.jsx", "src/index.jsx", "/src/App.jsx", "../../assistant-server.js"}
FencedCodes == {CodeApp, CodeCssPadded, CodeTemplate}
Outside == {Blank, ProseNext}
FencedBlocks == {Block(Some("jsx"), Some(p), c) : p \in FencedPaths, c \in FencedCodes}
FencedTexts ==
  {[prose |-> {}, segments |-> segs] :
     segs \in {t \in UNION {[1..(2 * n) -> FencedBlocks \cup {Block(Undefined, Undefined, o) : o \in Outside}] :
                              n \in 1..MaxFenced} :
                /\ \A i \in DOMAIN t : (i % 2 = 1) <=> (t[i] \in FencedBlocks)
                /\ \A i, j \in DOMAIN t :
                     i < j /\ i % 2 = 1 /\ j % 2 = 1 => t[i].explicit # t[j].explicit}}

\* the matches of codeBlockRegex in text order (part_001:773-776): a match
\* starts at a fence, its content holds no backtick and ends at the
\* next fence; the search goes on after the match, or at the next fence when
\* there is no match at this one
RECURSIVE Matches(_)
Matches(segments) ==
  IF Len(segments) < 2 THEN <<>>
  ELSE IF HasBacktick(Head(segments).code) THEN Matches(Tail(segments))
  ELSE <<Head(segments)>> \o Matches(Tail(Tail(segments)))

\* the blocks of a raw text, given by its blocks or by its fences
BlocksOf(text) ==
  IF "segments" \in DOMAIN text THEN Matches(text.segments) ELSE text.blocks

\* the keywords s.toLowerCase() contains, for the strings of the model
Mentions(s) ==
  CASE s = "tailwind" -> {"tailwind"}
    [] s \in {"tailwindcss", PkgTailwind} -> {"tailwind", "tailwindcss"}
    [] s \in {"typescript", "TypeScript"} -> {"typescript"}
    [] s \in {"next.js", "Next.js"} -> {"next.js", "next"}
    [] s \in {PkgNext, PkgEnv} -> {"next"}
    [] OTHER -> {}

\* the keywords s itself contains: String.prototype.includes is case-sensitive
Includes(s) == IF s \in {"TypeScript", "Next.js", PkgEnv} THEN {} ELSE Mentions(s)

\* response.toLowerCase().includes(kw), over prose, tags, filenames and code
TextIncludes(text, kw) ==
  \/ \E w \in text.prose : kw \in Mentions(w)
  \/ LET parts == IF "segments" \in DOMAIN text THEN text.segments ELSE text.blocks
     IN  \E i \in 1..Len(parts) :
           \/ \E l \in parts[i].lang : kw \in Mentions(l)
           \/ kw \in Mentions(parts[i].code)

getExtensionFromLanguage(language) ==
  CASE language \in {"javascript", "js"} -> ".js"
    [] language \in {"typescript", "ts"} -> ".ts"
    [] language = "jsx" -> ".jsx"
    [] language = "tsx" -> ".tsx"
    [] language = "css" -> ".css"
    [] language = "json" -> ".json"
    [] language = "html" -> ".html"
    [] OTHER -> ".txt"

\* code.match(/^(?:\/\/|#|\/\*)\s*filename:\s*([a-zA-Z0-9_\-\.\/]+)/)
firstLineMatch(code) ==
  IF code = CodeMain THEN Some("src/main.jsx") ELSE Undefined

\* the filename of one block, given the files extracted so far
BlockFilename(b, extractedFiles) ==
  LET lang == IF b.lang = Undefined THEN "txt" ELSE Val(b.lang)
      code == Trim(b.code)
  IN  IF b.explicit # Undefined THEN Val(b.explicit)
      ELSE IF firstLineMatch(code) # Undefined THEN Val(firstLineMatch(code))
      ELSE "file" \o ToString(Cardinality(ObjectKeys(extractedFiles)) + 1)
             \o getExtensionFromLanguage(lang)

\* the while loop over the matches of codeBlockRegex
RECURSIVE ExtractBlocks(_, _)
ExtractBlocks(blocks, extractedFiles) ==
  IF blocks = <<>> THEN extractedFiles
  ELSE ExtractBlocks(Tail(blocks),
         ObjectSet(extractedFiles, BlockFilename(Head(blocks), extractedFiles),
                   Trim(Head(blocks).code)))

\* file.endsWith('.ts') || file.endsWith('.tsx'), for the filenames of RawTexts
EndsWithTs(file) ==
  file \in {"src/App.tsx", "src/main.ts"}
            \cup {"file" \o ToString(n) \o ext : n \in 1..(MaxBlocks + MaxSignalBlocks + 1),
                                                 ext \in {".ts", ".tsx"}}

\* mutant: the language starts as typescript
InferProjectInfo_TsDefault(text, files) ==
  LET pkg == IF "package.json" \in ObjectKeys(files)
             THEN Includes(ObjectGet(files, "package.json")) ELSE {}
  IN  [framework |-> IF TextIncludes(text, "next.js") \/ "next" \in pkg THEN "next" ELSE "react",
       language |-> "typescript",
       cssFramework |-> IF TextIncludes(text, "tailwind") \/ "tailwindcss" \in pkg
                          THEN Some("tailwind") ELSE Undefined]

\* mutant: a Next.js project is taken to be written in TypeScript
InferProjectInfo_NextIsTs(text, files) ==
  LET pkg == IF "package.json" \in ObjectKeys(files)
             THEN Includes(ObjectGet(files, "package.json")) ELSE {}
      isNext == TextIncludes(text, "next.js") \/ "next" \in pkg
  IN  [framework |-> IF isNext THEN "next" ELSE "react",
       language |-> IF isNext \/ TextIncludes(text, "typescript")
                        \/ (\E f \in ObjectKeys(files) : EndsWithTs(f))
                      THEN "typescript" ELSE "javascript",
       cssFramework |-> IF TextIncludes(text, "tailwind") \/ "tailwindcss" \in pkg
                          THEN Some("tailwind") ELSE Undefined]

\* the projectInfo literal of extractCodeFromResponse
DefaultInfo == [framework |-> "react", language |-> "javascript", cssFramework |-> Undefined]

InferProjectInfo(text, files) ==
  LET pkg == IF "package.json" \in ObjectKeys(files)
             THEN Includes(ObjectGet(files, "package.json")) ELSE {}
  IN  [framework |-> IF TextIncludes(text, "next.js") \/ "next" \in pkg THEN "next" ELSE "react",
       language |-> IF TextIncludes(text, "typescript") \/ (\E f \in ObjectKeys(files) : EndsWithTs(f))
                      THEN "typescript" ELSE "javascript",
       cssFramework |-> IF TextIncludes(text, "tailwind") \/ "tailwindcss" \in pkg
                          THEN Some("tailwind") ELSE Undefined]

extractCodeFromResponse(response) ==
  LET files == ExtractBlocks(BlocksOf(response), <<>>)
  IN  [files |-> files, projectInfo |-> InferProjectInfo(response, files)]


VARIABLES
  VERCEL_TOKEN,    \* process.env.VERCEL_TOKEN is set
  configured,      \* the providers whose client and credentials exist
  now,             \* Date.now()
  jobs,            \* the job objects, in order of creation
  tasks,           \* the processGenerateAndDeploy invocation of each job object
  deploymentJobs,  \* the Map id -> job object (0: no entry)
  disk,            \* generated_projects/<id>: its files, filename -> content
  dirs,            \* the ids whose output directory exists
  execLog,         \* the shell commands each task has run (executeCommand)
  resp,            \* the last HTTP response sent
  response,        \* a raw text handed to the extraction on its own
  extracted,       \* what extractCodeFromResponse returned for it
  overlaid,        \* a scaffolded directory after addGeneratedCodeToProject
  project          \* a testBuildProject call on that directory: its position and result

\* the environment of the process, fixed at start-up
env == <<VERCEL_TOKEN, configured>>
\* the extraction and the overlay applied outside a job (SpecExtract)
extraction == <<response, extracted, overlaid, project>>
vars == <<env, extraction, now, jobs, tasks, deploymentJobs, disk, dirs, execLog, resp>>

\* no testBuildProject call: pc is "idle", then "build" while the first
\* `npm run build` runs, "rebuild" while the second runs, "returned" at the
\* end; builds counts the runs of the build command
NoProject == [pc |-> "idle", builds |-> 0, result |-> Undefined]

\* ------------------------------------------------------------------ jobs and responses
\* `generated_projects/${uniqueId}`
OutputDirOf(id) == <<"generated_projects", id>>

\* the job literal of POST /generateProject.  statusWrites is not a property of
\* the object: it lists, in order, the values the code has assigned to status,
\* several of which may be assigned within one turn of the event loop
NewJob(id, prompt, apiProvider, t) ==
  [id |-> id, prompt |-> prompt, outputDir |-> OutputDirOf(id), status |-> "pending",
   created |-> t, lastUpdated |-> t, completed |-> FALSE, apiProvider |-> apiProvider,
   error |-> Undefined, files |-> Undefined, fileContents |-> Undefined,
   deploymentUrl |-> Undefined, deploymentOutput |-> Undefined,
   statusWrites |-> <<"pending">>]

\* the locals of one processGenerateAndDeploy call; pc names the external call
\* it awaits ("done": returned)
NewTask(id, apiProvider) ==
  [uniqueId |-> id, apiProvider |-> apiProvider, pc |-> "start", attempts |-> 0,
   result |-> Undefined]

\* an HTTP response; a key the handler did not set is Undefined
NoResp ==
  [kind |-> "none", code |-> 0, success |-> FALSE, error |-> Undefined, jobId |-> Undefined,
   status |-> Undefined, created |-> Undefined, lastUpdated |-> Undefined,
   outputDir |-> Undefined, files |-> Undefined, deploymentUrl |-> Undefined,
   fileContents |-> Undefined]

ErrorResponse(kind, code, msg) ==
  [NoResp EXCEPT !.kind = kind, !.code = code, !.error = Some(msg)]

\* mutant: the checks that the chosen provider is configured are missing
ValidationError_NoConfigCheck(prompt, apiProvider) ==
  IF prompt = "" THEN Some("Missing required field: prompt")
  ELSE IF apiProvider \notin validProviders THEN Some("Invalid apiProvider")
  ELSE Undefined

\* the first failing validation of POST /generateProject (Undefined: the request is valid)
ValidationError(prompt, apiProvider) ==
  IF prompt = "" THEN Some("Missing required field: prompt")
  ELSE IF apiProvider \notin validProviders THEN Some("Invalid apiProvider")
  ELSE IF apiProvider \notin configured THEN Some("provider selected, but its key is missing or invalid")
  ELSE Undefined

SubmitResponse(id) ==
  [NoResp EXCEPT !.kind = "submit", !.code = 200, !.success = TRUE,
                 !.jobId = Some(id), !.status = Some("pending")]

\* mutant: the additional fields are not gated on job.completed
StatusResponse_Ungated(job, includeFiles) ==
  [NoResp EXCEPT !.kind = "query", !.code = 200, !.success = TRUE,
                 !.jobId = Some(job.id), !.status = Some(job.status),
                 !.created = Some(job.created), !.lastUpdated = Some(job.lastUpdated),
                 !.outputDir = IF job.completed THEN Some(job.outputDir) ELSE Undefined,
                 !.error = job.error,
                 !.files = job.files,
                 !.deploymentUrl = job.deploymentUrl,
                 !.fileContents = IF includeFiles THEN job.fileContents ELSE Undefined]

\* the body of GET /getDeploymentStatus once the job is found
StatusResponse(job, includeFiles) ==
  LET base == [NoResp EXCEPT !.kind = "query", !.code = 200, !.success = TRUE,
                 !.jobId = Some(job.id), !.status = Some(job.status),
                 !.created = Some(job.created), !.lastUpdated = Some(job.lastUpdated)]
  IN  IF job.completed
      THEN [base EXCEPT !.outputDir = Some(job.outputDir),
                        !.error = job.error,
                        !.files = job.files,
                        !.deploymentUrl = job.deploymentUrl,
                        !.fileContents = IF includeFiles THEN job.fileContents ELSE Undefined]
      ELSE base

\* the keys present in a response
ResponseKeys(r) ==
  {"success"}
    \cup (IF r.error # Undefined THEN {"error"} ELSE {})
    \cup (IF r.jobId # Undefined THEN {"jobId"} ELSE {})
    \cup (IF r.status # Undefined THEN {"status"} ELSE {})
    \cup (IF r.created # Undefined THEN {"created"} ELSE {})
    \cup (IF r.lastUpdated # Undefined THEN {"lastUpdated"} ELSE {})
    \cup (IF r.outputDir # Undefined THEN {"outputDir"} ELSE {})
    \cup (IF r.files # Undefined THEN {"files"} ELSE {})
    \cup (IF r.deploymentUrl # Undefined THEN {"deploymentUrl"} ELSE {})
    \cup (IF r.fileContents # Undefined THEN {"fileContents"} ELSE {})

\* ------------------------------------------------------------------ initial state
\* the sets of configured providers of the model: every key is set, or
\* OPENAI_API_KEY / ASSISTANT_ID is missing
ConfiguredSets == {validProviders, {"gemini", "claude"}}

\* no job yet
Idle ==
  /\ now = 1
  /\ jobs = <<>>
  /\ tasks = <<>>
  /\ deploymentJobs = [id \in Ids |-> 0]
  /\ disk = [id \in Ids |-> {}]
  /\ dirs = {}
  /\ execLog = <<>>
  /\ resp = NoResp

InitWith(providerSets) ==
  /\ VERCEL_TOKEN \in BOOLEAN
  /\ configured \in providerSets
  /\ response = TextNone /\ extracted = Undefined /\ overlaid = Undefined
  /\ project = NoProject
  /\ Idle

Init == InitWith({validProviders})
InitHttp == InitWith(ConfiguredSets)

\* ------------------------------------------------------------------ the background task
\* the first external call of the provider branch (part_001:892-949)
FirstCall(apiProvider) ==
  CASE apiProvider = "openai" -> "threads_create"
    [] apiProvider = "gemini" -> "gemini"
    [] apiProvider = "claude" -> "claude"

\* mutant: the status is not updated before the first backend call
Started_NoStatus(job) == job

\* processGenerateAndDeploy up to its first await (part_001:881-894)
Started(job) ==
  [job EXCEPT !.status = "generating", !.statusWrites = Append(@, "generating"),
              !.lastUpdated = now]

\* mutant: the catch block only logs the message
Failed_NoError(job, message) ==
  [job EXCEPT !.status = "failed", !.statusWrites = Append(@, "failed"),
              !.lastUpdated = now, !.completed = TRUE]

\* the catch block of processGenerateAndDeploy (part_001:1017-1023)
Failed(job, message) ==
  [job EXCEPT !.status = "failed", !.statusWrites = Append(@, "failed"),
              !.error = Some(message), !.lastUpdated = now, !.completed = TRUE]

\* mutant: the task is not over, its pending callback runs again
Returned_StillPending(task) == task

\* processGenerateAndDeploy has returned: its locals are gone
Returned(task) == [task EXCEPT !.pc = "done", !.attempts = 0, !.result = Undefined]

\* mutant: the catch block fails every job that is not finished
Catch_Every(k, message) ==
  /\ jobs' = [j \in 1..Len(jobs) |->
                IF j = k \/ ~jobs[j].completed THEN Failed(jobs[j], message) ELSE jobs[j]]
  /\ tasks' = [tasks EXCEPT ![k] = Returned(@)]

Catch(k, message) ==
  /\ jobs' = [jobs EXCEPT ![k] = Failed(@, message)]
  /\ tasks' = [tasks EXCEPT ![k] = Returned(@)]

\* executeCommand(command, cwd) is called
Exec(k, command) == execLog' = [execLog EXCEPT ![k] = Append(@, command)]

\* the callback of task k runs next: the event loop is free (the response of
\* the last handler went out with the handler's own turn) and the call has ended
Awaiting(k, call) == resp = NoResp /\ k \in 1..Len(jobs) /\ tasks[k].pc = call

\* ------------------------------------------------------------------ POST /generateProject
\* crypto.randomBytes(8).toString('hex') (part_001:1077).  Ids are opaque, so
\* a value drawn for the first time at the n-th accepted submission is named
\* IdName(n); SubmitRedrawn is the submission whose draw repeats a value.
randomBytes == IdName(Len(jobs) + 1)

\* a request that fails validation (part_001:1036-1074)
SubmitReject(prompt, apiProvider) ==
  /\ resp = NoResp
  /\ ValidationError(prompt, apiProvider) # Undefined
  /\ resp' = ErrorResponse("submit", 400, Val(ValidationError(prompt, apiProvider)))
  /\ UNCHANGED <<env, extraction, now, jobs, tasks, deploymentJobs, disk, dirs, execLog>>

\* part_001:1076-1121 with the id drawn: the directory is made, the job stored,
\* processGenerateAndDeploy run to its first await, the response sent
Accept(prompt, apiProvider, uniqueId) ==
  /\ resp = NoResp
  /\ Len(jobs) < MaxJobs
  /\ ValidationError(prompt, apiProvider) = Undefined
  /\ dirs' = dirs \cup {uniqueId}
  /\ jobs' = Append(jobs, Started(NewJob(uniqueId, prompt, apiProvider, now)))
  /\ deploymentJobs' = [deploymentJobs EXCEPT ![uniqueId] = Len(jobs) + 1]
  /\ tasks' = Append(tasks, [NewTask(uniqueId, apiProvider) EXCEPT !.pc = FirstCall(apiProvider)])
  /\ execLog' = Append(execLog, <<>>)
  /\ resp' = SubmitResponse(uniqueId)
  /\ UNCHANGED <<env, extraction, now, disk>>

\* mutant: the job is never put into the Map
Submit_NotStored(prompt, apiProvider, uniqueId) ==
  /\ resp = NoResp
  /\ Len(jobs) < MaxJobs
  /\ ValidationError(prompt, apiProvider) = Undefined
  /\ uniqueId = randomBytes
  /\ dirs' = dirs \cup {uniqueId}
  /\ jobs' = Append(jobs, Started(NewJob(uniqueId, prompt, apiProvider, now)))
  /\ tasks' = Append(tasks, [NewTask(uniqueId, apiProvider) EXCEPT !.pc = FirstCall(apiProvider)])
  /\ execLog' = Append(execLog, <<>>)
  /\ resp' = SubmitResponse(uniqueId)
  /\ UNCHANGED <<env, extraction, now, disk, deploymentJobs>>

\* a valid request (part_001:1076-1121): the job is stored, processGenerateAndDeploy
\* runs to its first await, the response is sent
Submit(prompt, apiProvider, uniqueId) ==
  /\ uniqueId = randomBytes
  /\ Accept(prompt, apiProvider, uniqueId)

\* the same request when randomBytes returns a value it returned before: the
\* handler does not look the id up before deploymentJobs.set (part_001:1077-1100)
SubmitRedrawn(prompt, apiProvider, uniqueId) ==
  /\ \E k \in 1..Len(jobs) : uniqueId = jobs[k].id
  /\ Accept(prompt, apiProvider, uniqueId)

\* ------------------------------------------------------------------ GET /getDeploymentStatus
Lookup(jobId) == IF jobId \in Ids THEN deploymentJobs[jobId] ELSE 0

\* mutant: an unknown id is answered like a missing parameter
QueryResult_NoNotFound(jobId, includeFiles) ==
  IF jobId = NoId \/ Lookup(jobId) = 0
  THEN ErrorResponse("query", 400, "Missing required parameter: jobId")
  ELSE StatusResponse(jobs[Lookup(jobId)], includeFiles)

QueryResult(jobId, includeFiles) ==
  IF jobId = NoId THEN ErrorResponse("query", 400, "Missing required parameter: jobId")
  ELSE IF Lookup(jobId) = 0 THEN ErrorResponse("query", 404, "Job not found")
  ELSE StatusResponse(jobs[Lookup(jobId)], includeFiles)

Query(jobId, includeFiles) ==
  /\ resp = NoResp
  /\ resp' = QueryResult(jobId, includeFiles)
  /\ UNCHANGED <<env, extraction, now, jobs, tasks, deploymentJobs, disk, dirs, execLog>>


\* ------------------------------------------------------------------ generation
ErrBackend == "request to the generation backend failed"
ErrCommand == "Command failed"

\* part_001:951-961, after the provider branch produced { files, projectInfo }
ScaffoldCommand(projectInfo) ==
  IF projectInfo.framework = "next" THEN "npx create-next-app" ELSE "npx create-vite"

\* mutant: the check for an empty file mapping is missing
Generated_NoCheck(k, result) ==
  /\ jobs' = [jobs EXCEPT ![k].status = "scaffolding",
                               ![k].statusWrites = Append(@, "scaffolding"),
                               ![k].lastUpdated = now]
  /\ tasks' = [tasks EXCEPT ![k].result = Some(result), ![k].pc = "scaffold"]
  /\ Exec(k, ScaffoldCommand(result.projectInfo))

Generated(k, result) ==
  IF ObjectKeys(result.files) = {}
  THEN Catch(k, "No code files found in API response") /\ UNCHANGED execLog
  ELSE /\ jobs' = [jobs EXCEPT ![k].status = "scaffolding",
                               ![k].statusWrites = Append(@, "scaffolding"),
                               ![k].lastUpdated = now]
       /\ tasks' = [tasks EXCEPT ![k].result = Some(result), ![k].pc = "scaffold"]
       /\ Exec(k, ScaffoldCommand(result.projectInfo))

\* openai.beta.threads.create() returns or throws (part_001:894)
ThreadCreateDone(k, ok) ==
  /\ Awaiting(k, "threads_create")
  /\ IF ok THEN tasks' = [tasks EXCEPT ![k].pc = "messages_create"] /\ UNCHANGED jobs
     ELSE Catch(k, ErrBackend)
  /\ UNCHANGED <<env, extraction, now, deploymentJobs, disk, dirs, execLog, resp>>

\* openai.beta.threads.messages.create() returns or throws (part_001:918)
MessageCreateDone(k, ok) ==
  /\ Awaiting(k, "messages_create")
  /\ IF ok THEN tasks' = [tasks EXCEPT ![k].pc = "runs_create"] /\ UNCHANGED jobs
     ELSE Catch(k, ErrBackend)
  /\ UNCHANGED <<env, extraction, now, deploymentJobs, disk, dirs, execLog, resp>>

\* mutant: the loop forgets attempts++
PollLoop_NoCount(k) ==
  IF tasks[k].attempts < MAX_POLLING_ATTEMPTS
  THEN tasks' = [tasks EXCEPT ![k].pc = "runs_retrieve"] /\ UNCHANGED jobs
  ELSE Catch(k, "Run polling timed out after maximum attempts")

\* mutant: the loop admits one attempt more
PollLoop_OneMore(k) ==
  IF tasks[k].attempts <= MAX_POLLING_ATTEMPTS
  THEN tasks' = [tasks EXCEPT ![k].attempts = @ + 1, ![k].pc = "runs_retrieve"] /\ UNCHANGED jobs
  ELSE Catch(k, "Run polling timed out after maximum attempts")

\* the head of the loop of pollForRunCompletion (part_001:120-123, 143)
PollLoop(k) ==
  IF tasks[k].attempts < MAX_POLLING_ATTEMPTS
  THEN tasks' = [tasks EXCEPT ![k].attempts = @ + 1, ![k].pc = "runs_retrieve"] /\ UNCHANGED jobs
  ELSE Catch(k, "Run polling timed out after maximum attempts")

\* openai.beta.threads.runs.create() returns or throws (part_001:923-927)
RunCreateDone(k, ok) ==
  /\ Awaiting(k, "runs_create")
  /\ IF ok THEN PollLoop(k) ELSE Catch(k, ErrBackend)
  /\ UNCHANGED <<env, extraction, now, deploymentJobs, disk, dirs, execLog, resp>>

RunStatuses == {"in_progress", "completed", "failed", "cancelled", "expired", "requires_action"}

RunFailedMessage(status) ==
  CASE status = "failed" -> "Assistant Run failed: failed"
    [] status = "cancelled" -> "Assistant Run failed: cancelled"
    [] status = "expired" -> "Assistant Run failed: expired"

\* mutant: a run that requires action is polled again
RunRetrieveDone_IgnoresAction(k, status) ==
  /\ Awaiting(k, "runs_retrieve")
  /\ CASE status = "completed" ->
            tasks' = [tasks EXCEPT ![k].pc = "messages_list", ![k].attempts = 0] /\ UNCHANGED jobs
       [] status \in {"failed", "cancelled", "expired"} -> Catch(k, RunFailedMessage(status))
       [] OTHER -> tasks' = [tasks EXCEPT ![k].pc = "sleep"] /\ UNCHANGED jobs
  /\ UNCHANGED <<env, extraction, now, deploymentJobs, disk, dirs, execLog, resp>>

\* runs.retrieve() returns a run (part_001:123-139, 927-933)
RunRetrieveDone(k, status) ==
  /\ Awaiting(k, "runs_retrieve")
  /\ CASE status = "completed" ->
            tasks' = [tasks EXCEPT ![k].pc = "messages_list", ![k].attempts = 0] /\ UNCHANGED jobs
       [] status \in {"failed", "cancelled", "expired"} -> Catch(k, RunFailedMessage(status))
       [] status = "requires_action" -> Catch(k, RunFailedMessage("failed"))
       [] OTHER -> tasks' = [tasks EXCEPT ![k].pc = "sleep"] /\ UNCHANGED jobs
  /\ UNCHANGED <<env, extraction, now, deploymentJobs, disk, dirs, execLog, resp>>

\* runs.retrieve() throws (part_001:123)
RunRetrieveThrows(k) ==
  /\ Awaiting(k, "runs_retrieve")
  /\ Catch(k, ErrBackend)
  /\ UNCHANGED <<env, extraction, now, deploymentJobs, disk, dirs, execLog, resp>>

\* sleep(POLLING_INTERVAL_MS) elapses (part_001:139)
SleepDone(k) ==
  /\ Awaiting(k, "sleep")
  /\ PollLoop(k)
  /\ UNCHANGED <<env, extraction, now, deploymentJobs, disk, dirs, execLog, resp>>

\* messages.list() returns the assistant's text (part_001:155-234, 933-935)
MessagesListDone(k, text) ==
  /\ Awaiting(k, "messages_list")
  /\ Generated(k, extractCodeFromResponse(text))
  /\ UNCHANGED <<env, extraction, now, deploymentJobs, disk, dirs, resp>>

\* messages.list() throws, or holds no assistant message (part_001:155-168)
MessagesListFails(k, message) ==
  /\ Awaiting(k, "messages_list")
  /\ Catch(k, message)
  /\ UNCHANGED <<env, extraction, now, deploymentJobs, disk, dirs, execLog, resp>>

\* generateCodeWithGemini / generateCodeWithClaude return (part_001:745-751, 850-866)
BackendDone(k, text) ==
  /\ resp = NoResp
  /\ k \in 1..Len(jobs)
  /\ tasks[k].pc \in {"gemini", "claude"}
  /\ Generated(k, extractCodeFromResponse(text))
  /\ UNCHANGED <<env, extraction, now, deploymentJobs, disk, dirs, resp>>

\* they throw: the request failed, or Claude's response was empty (part_001:752-755, 859-871)
BackendFails(k, message) ==
  /\ resp = NoResp
  /\ k \in 1..Len(jobs)
  /\ tasks[k].pc \in {"gemini", "claude"}
  /\ message = "Received empty response from Claude API" => tasks[k].pc = "claude"
  /\ Catch(k, message)
  /\ UNCHANGED <<env, extraction, now, deploymentJobs, disk, dirs, execLog, resp>>


\* ------------------------------------------------------------------ scaffold and overlay
ScaffoldContent == "scaffold template"

\* what the scaffolding tool leaves in the output directory
ScaffoldFiles(projectInfo) ==
  IF projectInfo.framework = "next"
  THEN <<<<"package.json", ScaffoldContent>>, <<"src/app/page.js", ScaffoldContent>>,
         <<"public/next.svg", ScaffoldContent>>>>
  ELSE <<<<"package.json", ScaffoldContent>>, <<"vite.config.js", ScaffoldContent>>,
         <<"src/App.jsx", ScaffoldContent>>, <<"public/vite.svg", ScaffoldContent>>>>

\* createScaffoldedProject runs the two Tailwind commands (part_001:327)
NeedsTailwind(projectInfo) ==
  projectInfo.cssFramework = Some("tailwind") /\ projectInfo.framework # "next"

\* path.join(projectDir, filename), relative to projectDir: the path is
\* normalised, so './' segments and a leading '/' vanish and '..' segments
\* climb (for the filenames of the model)
PathOf(filename) ==
  IF filename \in {"./src/App.jsx", "/src/App.jsx"} THEN "src/App.jsx" ELSE filename

\* the normalised path leaves projectDir: it starts with a '..' segment
LeavesProjectDir(path) == path = "../../assistant-server.js"

\* addGeneratedCodeToProject (part_001:345-359): the entries are written in
\* the order of Object.entries, each over whatever is at its path
RECURSIVE Overlay(_, _)
Overlay(dir, files) ==
  IF files = <<>> THEN dir
  ELSE Overlay(Put(dir, PathOf(Head(files)[1]), Head(files)[2]), Tail(files))

\* isTextFile (part_001:99-109), for the paths of the model
isTextFile(filename) == filename \notin {"public/vite.svg", "public/next.svg"}

\* part_001:971-984: the text files of the listing, with their contents
ReadContents(dir) == {e \in dir : isTextFile(e[1])}

\* mutant: the branch without a credential records no message
NotDeployed_NoError(job) ==
  [job EXCEPT !.status = "completed_without_deployment",
              !.statusWrites = Append(@, "completed_without_deployment"),
              !.lastUpdated = now, !.completed = TRUE]

\* mutant: the branch without a credential leaves the job as it is
NotDeployed_Skipped(job) == job

\* part_001:1008-1015: no deployment credential
NotDeployed(job) ==
  [job EXCEPT !.status = "completed_without_deployment",
              !.statusWrites = Append(@, "completed_without_deployment"),
              !.error = Some("Vercel token not configured. Project generated but not deployed."),
              !.lastUpdated = now, !.completed = TRUE]

\* ------------------------------------------------------------------ repairs
\* path.dirname, relative to the project directory, for the paths of the model
ParentDir(path) ==
  CASE path \in {"src/App.jsx", "src/main.jsx", "src/index.jsx", "src/Card.css", "src/file2.js"} -> "src"
    [] path \in {"src/app/page.js"} -> "src/app"
    [] path \in {"public/vite.svg", "public/next.svg"} -> "public"
    [] OTHER -> "."

\* /\.(js|jsx|ts|tsx)$/.test(file), for the paths of the model
IsScript(path) ==
  path \in {"src/App.jsx", "src/main.jsx", "src/index.jsx", "src/app/page.js", "src/file2.js",
             "vite.config.js", "file1.js", "file2.js", "file3.js", "file2.jsx"}

\* the stylesheets a file imports: the second group of the matches of
\* styleImportRegex in its content (part_001:406-410)
StyleImports(content) == IF content = CodeApp THEN {"Card.css"} ELSE {}

\* the component files validateComponentImports reads: the scripts directly
\* in src/components or src (part_001:369-386)
ComponentFiles(dir) ==
  {path \in Keys(dir) : IsScript(path) /\ ParentDir(path) \in {"src/components", "src"}}

\* the path at which an imported stylesheet without '/' is looked up
\* (part_001:415-421)
ImportedStylePath(componentFile, importedStyleFile) ==
  ParentDir(componentFile) \o "/" \o importedStyleFile

\* the stylesheet validateComponentImports writes (part_001:441-454)
StylePlaceholder == "/* Auto-generated style file for App */"

\* validateComponentImports (part_001:365-461): every stylesheet a component
\* file imports and that does not exist is created
validateComponentImports(dir) ==
  LET missing == UNION {{ImportedStylePath(c, f) : f \in StyleImports(Get(dir, c))} :
                          c \in ComponentFiles(dir)} \ Keys(dir)
  IN  dir \cup {<<path, StylePlaceholder>> : path \in missing}

\* the contents of a Vite config: what ensureViteConfig writes when there is
\* none, a config without plugin and css settings, and what the else branch
\* makes of that one and of the scaffold's
DefaultViteConfig == "import react; defineConfig({ plugins: [react()], css: { modules: false }, })"
ConfigBare == "export default defineConfig({});"
ConfigBareUpdated == "import react; export default defineConfig({ plugins: [react()], css: { modules: false }, });"
ScaffoldContentUpdated == "scaffold template; css: { modules: false }"

\* the else branch of ensureViteConfig on the content of a config file
\* (part_001:494-541): the plugin, its import and the css setting are added
\* where the content lacks them
UpdatedConfig(configContent) ==
  CASE configContent = ConfigBare -> ConfigBareUpdated
    [] configContent = ScaffoldContent -> ScaffoldContentUpdated
    [] OTHER -> configContent

\* ensureViteConfig (part_001:467-548)
ensureViteConfig(dir) ==
  LET configFiles == {f \in {"vite.config.js", "vite.config.ts"} : f \in Keys(dir)}
      configFile == IF "vite.config.js" \in configFiles THEN "vite.config.js" ELSE "vite.config.ts"
  IN  IF configFiles = {} THEN Put(dir, "vite.config.js", DefaultViteConfig)
      ELSE Put(dir, configFile, UpdatedConfig(Get(dir, configFile)))

\* the message of a failed `npm run build`: the stylesheet it says it could
\* not resolve and the importer it names, if any
BuildError(missing, from) == [missing |-> missing, from |-> from]
BuildErrors ==
  {BuildError(m, f) : m \in {Undefined, Some("./Card.css"), Some("../styles/Card.css")},
                      f \in {Undefined, Some("App.jsx"), Some("App"), Some("src/App.jsx")}}

\* componentFullPath (part_001:582-593): the importer under src, with the
\* first of the common extensions that exists when it has none
ComponentFullPath(dir, componentPath) ==
  LET joined == "src/" \o componentPath
  IN  IF componentPath \in {"App.jsx", "src/App.jsx"} THEN joined
      ELSE IF (joined \o ".jsx") \in Keys(dir) THEN joined \o ".jsx"
      ELSE IF (joined \o ".js") \in Keys(dir) THEN joined \o ".js"
      ELSE IF (joined \o ".tsx") \in Keys(dir) THEN joined \o ".tsx"
      ELSE IF (joined \o ".ts") \in Keys(dir) THEN joined \o ".ts"
      ELSE joined

\* the failure is an unresolved stylesheet import whose importer exists
\* (part_001:569-596)
Repairable(dir, error) ==
  /\ error.missing # Undefined
  /\ error.from # Undefined
  /\ ComponentFullPath(dir, Val(error.from)) \in Keys(dir)

\* path.basename of the stylesheets of BuildErrors
Basename(path) == IF path \in {"./Card.css", "../styles/Card.css"} THEN "Card.css" ELSE path

\* cssFilePath (part_001:600-601)
CssFilePath(dir, error) ==
  ParentDir(ComponentFullPath(dir, Val(error.from))) \o "/" \o Basename(Val(error.missing))

\* the stylesheet testBuildProject writes (part_001:605)
BuildPlaceholder == "/* Auto-generated CSS file for App.jsx */"

\* mutant: only the listing is stored, not the contents
Listed_NoContents(job, dir) ==
  [job EXCEPT !.files = Some(Keys(dir)),
              !.status = "deploying", !.statusWrites = Append(@, "deploying"),
              !.lastUpdated = now]

\* mutant: the listing is stored without a new timestamp
Listed_NoBump(job, dir) ==
  [job EXCEPT !.files = Some(Keys(dir)), !.fileContents = Some(ReadContents(dir)),
              !.status = "deploying", !.statusWrites = Append(@, "deploying")]

\* part_001:986-992
Listed(job, dir) ==
  [job EXCEPT !.files = Some(Keys(dir)), !.fileContents = Some(ReadContents(dir)),
              !.status = "deploying", !.statusWrites = Append(@, "deploying"),
              !.lastUpdated = now]

\* part_001:963-1015, from the end of createScaffoldedProject to the first
\* command of deployToVercel or, without a credential, to the end of the task;
\* scaffolded is the output directory as the scaffold commands left it.  A
\* write of the overlay may throw (fsOk = FALSE); it is taken to throw before
\* anything is written.
Materialize(k, scaffolded, fsOk) ==
  LET id == tasks[k].uniqueId
      dir == Overlay(scaffolded, Val(tasks[k].result).files)
  IN  IF ~fsOk
      THEN /\ Catch(k, "EISDIR: illegal operation on a directory")
           /\ disk' = [disk EXCEPT ![id] = scaffolded]
           /\ UNCHANGED execLog
      ELSE /\ disk' = [disk EXCEPT ![id] = dir]
           /\ IF VERCEL_TOKEN
              THEN /\ jobs' = [jobs EXCEPT ![k] = Listed(@, dir)]
                   /\ tasks' = [tasks EXCEPT ![k].pc = "npm_install"]
                   /\ Exec(k, "npm install")
              ELSE /\ jobs' = [jobs EXCEPT ![k] = NotDeployed(Listed(@, dir))]
                   /\ tasks' = [tasks EXCEPT ![k] = Returned(@)]
                   /\ UNCHANGED execLog

\* the scaffold command exits 0 (part_001:324-333, 961-965)
ScaffoldDone(k, fsOk) ==
  /\ Awaiting(k, "scaffold")
  /\ LET id == tasks[k].uniqueId
         info == Val(tasks[k].result).projectInfo
         scaffolded == Overlay(disk[id], ScaffoldFiles(info))
     IN  IF NeedsTailwind(info)
         THEN /\ fsOk
              /\ disk' = [disk EXCEPT ![id] = scaffolded]
              /\ tasks' = [tasks EXCEPT ![k].pc = "tailwind_install"]
              /\ Exec(k, "npm install -D tailwindcss postcss autoprefixer")
              /\ UNCHANGED jobs
         ELSE Materialize(k, scaffolded, fsOk)
  /\ UNCHANGED <<env, extraction, now, deploymentJobs, dirs, resp>>

\* npm install -D tailwindcss postcss autoprefixer exits 0 (part_001:329-330)
TailwindInstallDone(k) ==
  /\ Awaiting(k, "tailwind_install")
  /\ tasks' = [tasks EXCEPT ![k].pc = "tailwind_init"]
  /\ Exec(k, "npx tailwindcss init -p")
  /\ UNCHANGED <<env, extraction, now, jobs, deploymentJobs, disk, dirs, resp>>

\* npx tailwindcss init -p exits 0 (part_001:330-333, 961-965)
TailwindInitDone(k, fsOk) ==
  /\ Awaiting(k, "tailwind_init")
  /\ Materialize(k, disk[tasks[k].uniqueId], fsOk)
  /\ UNCHANGED <<env, extraction, now, deploymentJobs, dirs, resp>>

\* mutant: the exit code of the command is ignored
ScaffoldFails_Ignored(k) ==
  /\ resp = NoResp
  /\ k \in 1..Len(jobs)
  /\ tasks[k].pc \in {"scaffold", "tailwind_install", "tailwind_init"}
  /\ Materialize(k, disk[tasks[k].uniqueId], TRUE)
  /\ UNCHANGED <<env, extraction, now, deploymentJobs, dirs, resp>>

\* a command of createScaffoldedProject exits non-zero (part_001:334-337)
ScaffoldFails(k) ==
  /\ resp = NoResp
  /\ k \in 1..Len(jobs)
  /\ tasks[k].pc \in {"scaffold", "tailwind_install", "tailwind_init"}
  /\ Catch(k, ErrCommand)
  /\ UNCHANGED <<env, extraction, now, deploymentJobs, disk, dirs, execLog, resp>>

\* ------------------------------------------------------------------ deployment
\* A URL https://<labels joined by '-'>.vercel.app, with or without a final '/'
Url(labels, slash) == [labels |-> labels, slash |-> slash]

\* `ai-project-${uniqueId}` (part_001:997)
ProjectName(uniqueId) == <<"ai", "project", uniqueId>>

\* part_001:684-692: replace(/-[a-z0-9]+\.vercel\.app/, '.vercel.app'), then
\* the trailing slash.  Every label of the model is in [a-z0-9]+, so the
\* pattern matches the last label whenever a '-' precedes it.
Canonical(url) ==
  Url(IF Len(url.labels) >= 2 THEN SubSeq(url.labels, 1, Len(url.labels) - 1) ELSE url.labels,
      TRUE)

\* the suffix Vercel gives to the URL of a single deployment
PreviewHash == "h4sh"

\* what `vercel deploy` may print: no URL, or the first https URL of its output
DeployOutputs(uniqueId) ==
  {Undefined,
   Some(Url(ProjectName(uniqueId), FALSE)),
   Some(Url(ProjectName(uniqueId) \o <<PreviewHash>>, FALSE))}

\* mutant: the success branch does not keep the CLI's output
Deployed_NoOutput(job, url, output) ==
  [job EXCEPT !.status = "completed", !.statusWrites = Append(@, "completed"),
              !.deploymentUrl = Some(url), !.lastUpdated = now, !.completed = TRUE]

\* part_001:1000-1003, 1013-1015
Deployed(job, url, output) ==
  [job EXCEPT !.status = "completed", !.statusWrites = Append(@, "completed"),
              !.deploymentUrl = Some(url),
              !.deploymentOutput = Some(output), !.lastUpdated = now, !.completed = TRUE]

\* mutant: a failed deployment sends the job back to scaffolding
DeploymentFailed_Regress(job, message) ==
  [job EXCEPT !.status = "scaffolding", !.statusWrites = Append(@, "scaffolding"),
              !.error = Some(message), !.lastUpdated = now, !.completed = TRUE]

\* mutant: the failure branch returns before the final update
DeploymentFailed_NotCompleted(job, message) ==
  [job EXCEPT !.status = "deployment_failed",
              !.statusWrites = Append(@, "deployment_failed"),
              !.error = Some(message), !.lastUpdated = now]

\* mutant: a failed deployment is recorded like a crash of the task
DeploymentFailed_AsFailed(job, message) ==
  [job EXCEPT !.status = "failed", !.statusWrites = Append(@, "failed"),
              !.error = Some(message), !.lastUpdated = now, !.completed = TRUE]

\* mutant: the failure branch does not copy deployResult.error
DeploymentFailed_NoError(job, message) ==
  [job EXCEPT !.status = "deployment_failed",
              !.statusWrites = Append(@, "deployment_failed"),
              !.lastUpdated = now, !.completed = TRUE]

\* part_001:705-711, 1004-1007, 1013-1015
DeploymentFailed(job, message) ==
  [job EXCEPT !.status = "deployment_failed",
              !.statusWrites = Append(@, "deployment_failed"),
              !.error = Some(message), !.lastUpdated = now, !.completed = TRUE]

\* npm install exits 0 (part_001:641-646)
NpmInstallDone(k) ==
  /\ Awaiting(k, "npm_install")
  /\ tasks' = [tasks EXCEPT ![k].pc = "plugin_install"]
  /\ Exec(k, "npm install @vitejs/plugin-react --save-dev")
  /\ UNCHANGED <<env, extraction, now, jobs, deploymentJobs, disk, dirs, resp>>

\* the path lies in the directory .vercel of the project directory
InVercelDir(path) == path = ".vercel/project.json"

\* the plugin install exits 0: .vercel is removed unless fs.rmSync throws
\* (rmOk = FALSE; the error is logged and the function goes on), .vercelignore
\* is written and the deploy CLI started (part_001:646-678)
PluginInstallDone(k, rmOk) ==
  /\ Awaiting(k, "plugin_install")
  /\ rmOk \/ (\E path \in Keys(disk[tasks[k].uniqueId]) : InVercelDir(path))
  /\ tasks' = [tasks EXCEPT ![k].pc = "vercel_deploy"]
  /\ disk' = [disk EXCEPT ![tasks[k].uniqueId] =
                Put(IF rmOk THEN {e \in @ : ~InVercelDir(e[1])} ELSE @,
                    ".vercelignore", "README.md node_modules .git")]
  /\ Exec(k, "npx vercel deploy")
  /\ UNCHANGED <<env, extraction, now, jobs, deploymentJobs, dirs, resp>>

\* the deploy CLI exits 0 (part_001:675-704, 1000-1015)
DeployDone(k, output) ==
  /\ Awaiting(k, "vercel_deploy")
  /\ output \in DeployOutputs(tasks[k].uniqueId)
  /\ jobs' = [jobs EXCEPT ![k] =
                IF output = Undefined
                THEN DeploymentFailed(@, "Could not extract deployment URL from Vercel output")
                ELSE Deployed(@, Canonical(Val(output)), Val(output))]
  /\ tasks' = [tasks EXCEPT ![k] = Returned(@)]
  /\ UNCHANGED <<env, extraction, now, deploymentJobs, disk, dirs, execLog, resp>>

\* a command of deployToVercel exits non-zero (part_001:705-711, 1004-1015)
DeployFails(k) ==
  /\ resp = NoResp
  /\ k \in 1..Len(jobs)
  /\ tasks[k].pc \in {"npm_install", "plugin_install", "vercel_deploy"}
  /\ jobs' = [jobs EXCEPT ![k] = DeploymentFailed(@, ErrCommand)]
  /\ tasks' = [tasks EXCEPT ![k] = Returned(@)]
  /\ UNCHANGED <<env, extraction, now, deploymentJobs, disk, dirs, execLog, resp>>

\* res.json(...) hands the response to the socket within the handler's turn:
\* it is out before the next callback runs
ResponseSent ==
  /\ resp # NoResp
  /\ resp' = NoResp
  /\ UNCHANGED <<env, extraction, now, jobs, tasks, deploymentJobs, disk, dirs, execLog>>

\* ------------------------------------------------------------------ specification
JobIx == 1..MaxJobs
QueryIds == Ids \cup {NoId}
FailMessages == {ErrBackend, "Received empty response from Claude API"}

\* the steps of the background task of job object k
TaskStep(k) ==
  \/ \E ok \in BOOLEAN : ThreadCreateDone(k, ok)
  \/ \E ok \in BOOLEAN : MessageCreateDone(k, ok)
  \/ \E ok \in BOOLEAN : RunCreateDone(k, ok)
  \/ \E st \in RunStatuses : RunRetrieveDone(k, st)
  \/ RunRetrieveThrows(k)
  \/ SleepDone(k)
  \/ \E text \in RawTexts : MessagesListDone(k, text)
  \/ MessagesListFails(k, "No assistant message found in thread")
  \/ \E text \in RawTexts : BackendDone(k, text)
  \/ \E m \in FailMessages : BackendFails(k, m)
  \/ \E fsOk \in BOOLEAN : ScaffoldDone(k, fsOk)
  \/ TailwindInstallDone(k)
  \/ \E fsOk \in BOOLEAN : TailwindInitDone(k, fsOk)
  \/ ScaffoldFails(k)
  \/ NpmInstallDone(k)
  \/ \E rmOk \in BOOLEAN : PluginInstallDone(k, rmOk)
  \/ \E out \in UNION {DeployOutputs(id) : id \in Ids} : DeployDone(k, out)
  \/ DeployFails(k)

\* Spec: up to MaxJobs concurrent jobs, their submissions and their tasks
Next ==
  \/ \E p \in Prompts, a \in Providers, id \in Ids : Submit(p, a, id)
  \/ ResponseSent
  \/ \E k \in JobIx : TaskStep(k)

Spec == Init /\ [][Next]_vars

\* SpecHttp: up to MaxFewJobs jobs, with the clients' queries and the
\* requests that fail validation
NextHttp ==
  \/ \E p \in Prompts, a \in Providers, id \in Ids : Len(jobs) < MaxFewJobs /\ Submit(p, a, id)
  \/ \E p \in Prompts, a \in Providers : SubmitReject(p, a)
  \/ \E id \in QueryIds, inc \in BOOLEAN : Query(id, inc)
  \/ ResponseSent
  \/ \E k \in JobIx : TaskStep(k)

SpecHttp == InitHttp /\ [][NextHttp]_vars

\* SpecFair: up to MaxFewJobs jobs; every external call a task waits on ends
\* (it returns or it fails) and Node then runs the task's callback
NextFew ==
  \/ \E p \in Prompts, a \in Providers, id \in Ids : Len(jobs) < MaxFewJobs /\ Submit(p, a, id)
  \/ ResponseSent
  \/ \E k \in JobIx : TaskStep(k)

SpecFair ==
  /\ Init
  /\ [][NextFew]_vars
  /\ WF_vars(ResponseSent)
  /\ \A k \in JobIx : WF_vars(TaskStep(k))

\* Date.now() advances (a clock that is never set back)
Tick ==
  /\ now < MaxTime
  /\ now' = now + 1
  /\ UNCHANGED <<env, extraction, jobs, tasks, deploymentJobs, disk, dirs, execLog, resp>>

\* SpecClock: up to MaxFewJobs jobs, with the clients' queries, while time passes
NextClock ==
  \/ \E p \in Prompts, a \in Providers, id \in Ids : Len(jobs) < MaxFewJobs /\ Submit(p, a, id)
  \/ \E id \in QueryIds, inc \in BOOLEAN : Query(id, inc)
  \/ ResponseSent
  \/ \E k \in JobIx : TaskStep(k)
  \/ Tick

SpecClock == Init /\ [][NextClock]_vars

\* SpecDraw: as Spec, and randomBytes may return a value again
NextDraw ==
  \/ \E p \in Prompts, a \in Providers, id \in Ids : Submit(p, a, id)
  \/ \E p \in Prompts, a \in Providers, id \in Ids : SubmitRedrawn(p, a, id)
  \/ ResponseSent
  \/ \E k \in JobIx : TaskStep(k)

SpecDraw == Init /\ [][NextDraw]_vars

\* SpecExtract: extractCodeFromResponse applied to a raw text, then
\* addGeneratedCodeToProject applied to its files over a scaffolded directory
InitExtract ==
  /\ VERCEL_TOKEN = FALSE
  /\ configured = validProviders
  /\ response \in Responses /\ extracted = Undefined /\ overlaid = Undefined
  /\ project = NoProject
  /\ Idle

Extract ==
  /\ extracted = Undefined
  /\ extracted' = Some(extractCodeFromResponse(response))
  /\ UNCHANGED <<env, response, overlaid, project, now, jobs, tasks, deploymentJobs, disk, dirs,
                 execLog, resp>>

AddGeneratedCode ==
  /\ extracted # Undefined /\ overlaid = Undefined
  /\ overlaid' = Some(Overlay(Overlay({}, ScaffoldFiles(Val(extracted).projectInfo)),
                              Val(extracted).files))
  /\ UNCHANGED <<env, response, extracted, project, now, jobs, tasks, deploymentJobs, disk, dirs,
                 execLog, resp>>

NextExtract == Extract \/ AddGeneratedCode

SpecExtract == InitExtract /\ [][NextExtract]_vars

\* SpecScan: as SpecExtract, for the raw texts given by their fences
InitScan ==
  /\ VERCEL_TOKEN = FALSE
  /\ configured = validProviders
  /\ response \in FencedTexts /\ extracted = Undefined /\ overlaid = Undefined
  /\ project = NoProject
  /\ Idle

SpecScan == InitScan /\ [][NextExtract]_vars

\* SpecRepair: the extraction and the overlay of a raw text, then
\* validateComponentImports, ensureViteConfig and testBuildProject applied to
\* the directory (no caller in the server: they are applied on their own)
RepairTexts ==
  {[prose |-> p, blocks |-> <<Block(Some("jsx"), Some("src/App.jsx"), CodeApp)>> \o css \o cfg] :
     p \in {{}, {"Next.js"}},
     css \in {<<>>, <<Block(Some("css"), Some("src/Card.css"), CodeCss)>>},
     cfg \in {<<>>} \cup {<<Block(Some("js"), Some("vite.config.js"), c)>> :
                            c \in {ConfigBare, DefaultViteConfig}}}

InitRepair ==
  /\ VERCEL_TOKEN = FALSE
  /\ configured = validProviders
  /\ response \in RepairTexts /\ extracted = Undefined /\ overlaid = Undefined
  /\ project = NoProject
  /\ Idle

ValidateComponentImports ==
  /\ overlaid # Undefined
  /\ overlaid' = Some(validateComponentImports(Val(overlaid)))
  /\ UNCHANGED <<env, response, extracted, project, now, jobs, tasks, deploymentJobs, disk, dirs,
                 execLog, resp>>

EnsureViteConfig ==
  /\ overlaid # Undefined
  /\ overlaid' = Some(ensureViteConfig(Val(overlaid)))
  /\ UNCHANGED <<env, response, extracted, project, now, jobs, tasks, deploymentJobs, disk, dirs,
                 execLog, resp>>

\* testBuildProject is called and starts the build (part_001:555-560)
TestBuildStart ==
  /\ overlaid # Undefined /\ project.pc = "idle"
  /\ project' = [project EXCEPT !.pc = "build", !.builds = @ + 1]
  /\ UNCHANGED <<env, response, extracted, overlaid, now, jobs, tasks, deploymentJobs, disk, dirs,
                 execLog, resp>>

\* the first build exits 0 (part_001:560-562)
BuildSucceeds ==
  /\ project.pc = "build"
  /\ project' = [project EXCEPT !.pc = "returned", !.result = Some(TRUE)]
  /\ UNCHANGED <<env, response, extracted, overlaid, now, jobs, tasks, deploymentJobs, disk, dirs,
                 execLog, resp>>

\* mutant: the build is run again after every failure
BuildFails_Retry(error) ==
  /\ project.pc = "build"
  /\ project' = IF project.builds < 3 THEN [project EXCEPT !.builds = @ + 1]
                ELSE [project EXCEPT !.pc = "returned", !.result = Some(FALSE)]
  /\ UNCHANGED <<env, response, extracted, overlaid, now, jobs, tasks, deploymentJobs, disk, dirs,
                 execLog, resp>>

\* the first build fails (part_001:563-621)
BuildFails(error) ==
  /\ project.pc = "build"
  /\ IF Repairable(Val(overlaid), error)
     THEN /\ overlaid' = Some(Put(Val(overlaid), CssFilePath(Val(overlaid), error), BuildPlaceholder))
          /\ project' = [project EXCEPT !.pc = "rebuild", !.builds = @ + 1]
     ELSE /\ project' = [project EXCEPT !.pc = "returned", !.result = Some(FALSE)]
          /\ UNCHANGED overlaid
  /\ UNCHANGED <<env, response, extracted, now, jobs, tasks, deploymentJobs, disk, dirs,
                 execLog, resp>>

\* the second build exits (part_001:608-615)
RebuildDone(ok) ==
  /\ project.pc = "rebuild"
  /\ project' = [project EXCEPT !.pc = "returned", !.result = Some(ok)]
  /\ UNCHANGED <<env, response, extracted, overlaid, now, jobs, tasks, deploymentJobs, disk, dirs,
                 execLog, resp>>

NextRepair ==
  \/ Extract
  \/ AddGeneratedCode
  \/ ValidateComponentImports
  \/ EnsureViteConfig
  \/ TestBuildStart
  \/ BuildSucceeds
  \/ \E error \in BuildErrors : BuildFails(error)
  \/ \E ok \in BOOLEAN : RebuildDone(ok)

SpecRepair == InitRepair /\ [][NextRepair]_vars

TypeOK ==
  /\ Len(jobs) <= MaxJobs
  /\ Len(tasks) = Len(jobs)
  /\ \A k \in 1..Len(jobs) : jobs[k].status \in Statuses

\* ------------------------------------------------------------------ claims
JobsNow == 1..Len(jobs)

\* the edges of the graph of section 4.1 as the claim lists them
ClaimedEdges ==
  {<<"pending", "generating">>, <<"generating", "scaffolding">>, <<"scaffolding", "deploying">>,
   <<"deploying", "completed">>, <<"deploying", "deployment_failed">>,
   <<"deploying", "completed_without_deployment">>}
    \cup {<<st, "failed">> : st \in NonTerminal}

IsPrefix(s, t) == Len(s) <= Len(t) /\ SubSeq(t, 1, Len(s)) = s

\* C1.  Every change of a job's status follows an edge of pending ->
\* generating -> scaffolding -> deploying -> {completed, deployment_failed,
\* completed_without_deployment} or non-terminal -> failed: the values the
\* code assigns to status start at pending, each follows its predecessor along
\* an edge, and a step only adds assignments.
C1_StatusFollowsGraph ==
  /\ [](\A k \in JobsNow :
          LET w == jobs[k].statusWrites
          IN  /\ w[1] = "pending"
              /\ jobs[k].status = w[Len(w)]
              /\ \A i \in 1..(Len(w) - 1) : <<w[i], w[i + 1]>> \in ClaimedEdges)
  /\ [][\A k \in JobsNow : IsPrefix(jobs[k].statusWrites, jobs'[k].statusWrites)]_vars

\* a job without a deployment credential went through every stage
C1_Witness ==
  \E k \in JobsNow :
    jobs[k].statusWrites =
      <<"pending", "generating", "scaffolding", "deploying", "completed_without_deployment">>

\* C2.  Terminal states are absorbing: no step changes the status, error,
\* files, fileContents or deploymentUrl of a job whose status is terminal.
C2_TerminalAbsorbing ==
  [][\A k \in JobsNow :
       jobs[k].status \in Terminal =>
         /\ jobs'[k].status = jobs[k].status
         /\ jobs'[k].error = jobs[k].error
         /\ jobs'[k].files = jobs[k].files
         /\ jobs'[k].fileContents = jobs[k].fileContents
         /\ jobs'[k].deploymentUrl = jobs[k].deploymentUrl]_vars

\* a job is terminal while a later job has gone on to its scaffold command
C2_Witness ==
  \E k, j \in JobsNow : k < j /\ jobs[k].status \in Terminal /\ tasks[j].pc = "scaffold"

\* the statuses on which the test clients stop polling (part_000:57-60,
\* scripts/start-project.js:123-129)
PollStopStatuses == {"completed", "failed", "deployment_failed", "completed_without_deployment"}

\* C3.  In every state a query can find, completed is true exactly when the
\* status is one of the four terminal states, the set the clients stop on.
C3_CompletedIffTerminal ==
  /\ PollStopStatuses = Terminal
  /\ \A k \in JobsNow : jobs[k].completed <=> jobs[k].status \in PollStopStatuses

C3_Witness ==
  \E k, j \in JobsNow :
    /\ jobs[k].completed /\ jobs[k].status = "deployment_failed"
    /\ ~jobs[j].completed /\ jobs[j].status = "deploying"

\* C4.  Every accepted submission eventually reaches a terminal state, given
\* that each external call ends and the task's callbacks are run.
C4_EventuallyTerminal ==
  \A k \in JobIx : (k \in JobsNow) ~> (k \in JobsNow /\ jobs[k].status \in Terminal)

\* the polling loop ran out of attempts and the job ended
C4_Witness ==
  \E k \in JobsNow :
    /\ jobs[k].status = "failed"
    /\ jobs[k].error = Some("Run polling timed out after maximum attempts")

\* the steps of task k in which a pipeline step throws into
\* processGenerateAndDeploy: a backend call, a run that did not complete,
\* polling out of attempts, no assistant message, no files, a scaffold command,
\* a write of the overlay.  (deployToVercel turns the failures of its commands
\* into its return value: it raises nothing.)
Throws(k) ==
  \/ ThreadCreateDone(k, FALSE) \/ MessageCreateDone(k, FALSE) \/ RunCreateDone(k, FALSE)
  \/ RunRetrieveThrows(k)
  \/ \E st \in RunStatuses \ {"in_progress", "completed"} : RunRetrieveDone(k, st)
  \/ (tasks[k].attempts >= MAX_POLLING_ATTEMPTS /\ SleepDone(k))
  \/ MessagesListFails(k, "No assistant message found in thread")
  \/ \E m \in FailMessages : BackendFails(k, m)
  \/ \E text \in RawTexts :
       /\ ObjectKeys(extractCodeFromResponse(text).files) = {}
       /\ BackendDone(k, text) \/ MessagesListDone(k, text)
  \/ ScaffoldFails(k)
  \/ ScaffoldDone(k, FALSE)
  \/ TailwindInitDone(k, FALSE)

ExceptionMessages ==
  FailMessages \cup
  {ErrCommand, "EISDIR: illegal operation on a directory",
   "No assistant message found in thread", "No code files found in API response",
   "Run polling timed out after maximum attempts",
   "Assistant Run failed: failed", "Assistant Run failed: cancelled", "Assistant Run failed: expired"}

\* C5.  Any exception raised by a pipeline step of the background task is
\* caught by processGenerateAndDeploy: the job ends with status failed, error
\* is the exception's message and completed is true; the step produces no
\* response, ends the task and touches no other job, task or store entry.
C5_ExceptionsCaught ==
  [][\A k \in JobsNow :
       Throws(k) =>
         /\ jobs'[k].status = "failed"
         /\ jobs'[k].error \in {Some(m) : m \in ExceptionMessages}
         /\ jobs'[k].completed
         /\ tasks'[k].pc = "done"
         /\ resp' = resp
         /\ deploymentJobs' = deploymentJobs
         /\ \A j \in JobsNow \ {k} : jobs'[j] = jobs[j] /\ tasks'[j] = tasks[j]]_vars

\* one job failed in generation, another when a scaffold command failed
C5_Witness ==
  \E k, j \in JobsNow :
    /\ jobs[k].status = "failed" /\ jobs[k].error = Some(ErrBackend)
    /\ jobs[j].status = "failed" /\ jobs[j].error = Some(ErrCommand) /\ execLog[j] # <<>>

\* C6.  A valid submit answers {success, jobId, status "pending"} while the
\* task still waits on its first backend call; an id in the store is never
\* removed and every query for it succeeds.
C6_SubmitThenQueryable ==
  /\ [](resp.kind = "submit" /\ resp.success =>
          /\ resp.status = Some("pending")
          /\ \E id \in Ids :
               /\ resp.jobId = Some(id)
               /\ deploymentJobs[id] # 0
               /\ jobs[deploymentJobs[id]].id = id
               /\ tasks[deploymentJobs[id]].pc = FirstCall(jobs[deploymentJobs[id]].apiProvider))
  /\ [][\A id \in Ids : deploymentJobs[id] # 0 => deploymentJobs'[id] # 0]_vars
  /\ [][\A id \in Ids, inc \in BOOLEAN :
          deploymentJobs[id] # 0 /\ Query(id, inc) =>
            resp'.success /\ resp'.code = 200 /\ resp'.jobId = Some(id)]_vars

C6_Witness ==
  /\ resp.kind = "query" /\ resp.success
  /\ resp.status = Some("generating")

\* a request the claim calls invalid
InvalidRequest(prompt, apiProvider) ==
  \/ prompt = ""
  \/ apiProvider \notin {"openai", "gemini", "claude"}
  \/ apiProvider \notin configured

StoreUnchanged == UNCHANGED <<jobs, tasks, deploymentJobs, dirs, disk, execLog>>

\* C7.  An invalid submit is answered with the client-error envelope
\* {success: false, error} and changes nothing: no job, no output directory,
\* no task.  Every job that is created comes from a valid request.
C7_InvalidRejected ==
  /\ [][\A p \in Prompts, a \in Providers :
          InvalidRequest(p, a) /\ SubmitReject(p, a) =>
            /\ resp'.kind = "submit" /\ resp'.code = 400
            /\ ~resp'.success /\ resp'.error # Undefined
            /\ StoreUnchanged]_vars
  /\ [][Len(jobs') > Len(jobs) =>
          ~InvalidRequest(jobs'[Len(jobs')].prompt, jobs'[Len(jobs')].apiProvider)]_vars
  /\ [][resp' # resp /\ resp'.kind = "submit" /\ ~resp'.success => StoreUnchanged]_vars

\* a valid provider without credentials was rejected with a job in the store
C7_Witness ==
  /\ resp.kind = "submit" /\ ~resp.success
  /\ resp.error = Some("provider selected, but its key is missing or invalid")
  /\ Len(jobs) = 1 /\ dirs = {jobs[1].id}

\* C8.  A query for an id that is not in the store is answered with the
\* NotFound envelope; no query changes the store or a field of a job.
C8_QueryFrame ==
  /\ [][\A id \in Ids, inc \in BOOLEAN :
          deploymentJobs[id] = 0 /\ Query(id, inc) =>
            resp' = ErrorResponse("query", 404, "Job not found")]_vars
  /\ [][resp' # resp /\ resp'.kind = "query" => UNCHANGED <<env, extraction, now>> /\ StoreUnchanged]_vars

C8_Witness ==
  /\ resp = ErrorResponse("query", 404, "Job not found")
  /\ Len(jobs) = 1

BaseKeys == {"success", "jobId", "status", "created", "lastUpdated"}
CompletedKeys == {"outputDir", "error", "files", "deploymentUrl"}

\* C9.  The response for a known job holds only the five base keys while
\* completed is false; outputDir, error, files and deploymentUrl appear only
\* once it is true, and fileContents only if moreover includeFiles was passed
\* and contents were captured.
C9_ResponseFields ==
  [][\A id \in Ids, inc \in BOOLEAN :
       deploymentJobs[id] # 0 /\ Query(id, inc) =>
         LET job == jobs[deploymentJobs[id]]
             keys == ResponseKeys(resp')
         IN  /\ BaseKeys \subseteq keys
             /\ keys \subseteq BaseKeys \cup CompletedKeys \cup {"fileContents"}
             /\ ~job.completed => keys = BaseKeys
             /\ job.completed => "outputDir" \in keys
             /\ "fileContents" \in keys <=>
                  job.completed /\ inc /\ job.fileContents # Undefined]_vars

\* a query of a job that is deploying, its files recorded, shows the base keys only
C9_Witness ==
  /\ resp.kind = "query" /\ ResponseKeys(resp) = BaseKeys
  /\ resp.status = Some("deploying")
  /\ \E k \in JobsNow :
       resp.jobId = Some(jobs[k].id) /\ jobs[k].files # Undefined /\ ~jobs[k].completed

NoFilesMessage == "No code files found in API response"

\* C10.  A job whose extraction yields zero files goes from generating to
\* failed with the no-files error; it is never scaffolding and no scaffold
\* command (no command at all) is run for it.
C10_NoFilesFails ==
  /\ [][\A k \in JobsNow, text \in RawTexts :
          /\ ObjectKeys(extractCodeFromResponse(text).files) = {}
          /\ BackendDone(k, text) \/ MessagesListDone(k, text)
          => /\ jobs[k].status = "generating"
             /\ jobs'[k].status = "failed"
             /\ jobs'[k].error = Some(NoFilesMessage)
             /\ jobs'[k].completed
             /\ execLog'[k] = <<>>]_vars
  /\ [](\A k \in JobsNow :
          jobs[k].error = Some(NoFilesMessage) =>
            jobs[k].status = "failed" /\ execLog[k] = <<>>)

C10_Witness ==
  \E k \in JobsNow : jobs[k].status = "failed" /\ jobs[k].error = Some(NoFilesMessage)

\* the commands of deployToVercel (part_001:641, 646, 673)
DeployCommands ==
  {"npm install", "npm install @vitejs/plugin-react --save-dev", "npx vercel deploy"}

Commands(k) == {execLog[k][i] : i \in 1..Len(execLog[k])}

\* the step of task k in which the last scaffold command and the overlay succeed
OverlaySucceeds(k) ==
  \/ ScaffoldDone(k, TRUE) /\ ~NeedsTailwind(Val(tasks[k].result).projectInfo)
  \/ TailwindInitDone(k, TRUE)

\* C11.  Without a deployment credential, a job whose generation, scaffold,
\* overlay and listing succeed ends with status completed_without_deployment,
\* completed true, a non-empty files list, a non-empty error and no
\* deploymentUrl, and no command of the deployment adapter is ever run for it.
C11_CompletedWithoutDeployment ==
  /\ [][\A k \in JobsNow :
          ~VERCEL_TOKEN /\ OverlaySucceeds(k) =>
            /\ jobs'[k].status = "completed_without_deployment"
            /\ jobs'[k].completed
            /\ jobs'[k].files # Undefined /\ Val(jobs'[k].files) # {}
            /\ jobs'[k].error # Undefined /\ Val(jobs'[k].error) # ""
            /\ jobs'[k].deploymentUrl = Undefined
            /\ tasks'[k].pc = "done"
            /\ execLog'[k] = execLog[k]]_vars
  /\ [](~VERCEL_TOKEN => \A k \in JobsNow : Commands(k) \cap DeployCommands = {})

\* such a job, after its scaffold command (and nothing else) was run
C11_Witness ==
  /\ ~VERCEL_TOKEN
  /\ \E k \in JobsNow :
       /\ jobs[k].status = "completed_without_deployment"
       /\ jobs[k].files # Undefined
       /\ execLog[k] = <<"npx create-vite">>

\* how often command was run for job k
Runs(k, command) == Cardinality({i \in 1..Len(execLog[k]) : execLog[k][i] = command})

\* the steps of task k in which the deployment stage fails: a command of
\* deployToVercel exits non-zero, or the deploy CLI prints no URL
DeploymentStageFails(k) == DeployFails(k) \/ DeployDone(k, Undefined)

\* C12.  Any failure inside the deployment stage ends the job with status
\* deployment_failed (never failed), error set and files retained; the deploy
\* CLI is run at most once per job and nothing is retried after the failure.
C12_DeploymentFailure ==
  /\ [][\A k \in JobsNow :
          DeploymentStageFails(k) =>
            /\ jobs'[k].status = "deployment_failed"
            /\ jobs'[k].error # Undefined /\ Val(jobs'[k].error) # ""
            /\ jobs'[k].completed
            /\ jobs[k].files # Undefined /\ jobs'[k].files = jobs[k].files
            /\ tasks'[k].pc = "done"
            /\ execLog'[k] = execLog[k]]_vars
  /\ [](\A k \in JobsNow : \A c \in DeployCommands : Runs(k, c) <= 1)
  /\ [][\A k \in JobsNow :
          jobs[k].status = "deployment_failed" => execLog'[k] = execLog[k]]_vars

\* the deploy CLI ran once and printed no URL
C12_Witness ==
  \E k \in JobsNow :
    /\ jobs[k].status = "deployment_failed"
    /\ jobs[k].error = Some("Could not extract deployment URL from Vercel output")
    /\ jobs[k].files # Undefined
    /\ Runs(k, "npx vercel deploy") = 1

\* the external calls of the three stages, by the task's position
GenerationCalls ==
  {"threads_create", "messages_create", "runs_create", "runs_retrieve", "sleep",
   "messages_list", "gemini", "claude"}
ScaffoldCalls == {"scaffold", "tailwind_install", "tailwind_init"}
DeploymentCalls == {"npm_install", "plugin_install", "vercel_deploy"}

\* the status of the stage whose external call the task awaits
StageStatus(pc) ==
  CASE pc \in GenerationCalls -> "generating"
    [] pc \in ScaffoldCalls -> "scaffolding"
    [] pc \in DeploymentCalls -> "deploying"

\* C13.  Within a job the stages run in the order generation, scaffold,
\* overlay, deployment: while an external call of a stage is in progress the
\* stored status is that stage's status, and so is the status a query returns;
\* no command runs during generation, no scaffold command after a deployment
\* command, and the output directory is written only while the status is
\* scaffolding (scaffold tool, overlay) or deploying (adapter).
C13_StageOrder ==
  /\ [](\A k \in JobsNow :
          tasks[k].pc # "done" =>
            /\ jobs[k].status = StageStatus(tasks[k].pc)
            /\ tasks[k].pc \in GenerationCalls => execLog[k] = <<>>
            /\ \A i, j \in 1..Len(execLog[k]) :
                 i < j /\ execLog[k][i] \in DeployCommands => execLog[k][j] \in DeployCommands
            /\ (resp.kind = "query" /\ resp.jobId = Some(jobs[k].id)) =>
                 resp.status = Some(StageStatus(tasks[k].pc)))
  /\ [][\A k \in JobsNow :
          disk'[jobs[k].id] # disk[jobs[k].id] =>
            jobs[k].status \in {"scaffolding", "deploying"}]_vars

\* a query during the deploy command, after the scaffold command
C13_Witness ==
  \E k \in JobsNow :
    /\ tasks[k].pc = "vercel_deploy"
    /\ execLog[k][1] = "npx create-vite"
    /\ resp.kind = "query" /\ resp.status = Some("deploying")

\* the ids that are keys of the Map
StoredIds == {id \in Ids : deploymentJobs[id] # 0}

\* C14.  Every accepted submit allocates an id that is not yet a key of the
\* store: the ids of the jobs are pairwise distinct, no stored job is
\* overwritten (each job is the entry of its id), after N accepted submits the
\* store holds N jobs, and each id has exactly one background task.
C14_FreshIds ==
  /\ \A k, j \in JobsNow : k # j => jobs[k].id # jobs[j].id
  /\ \A k \in JobsNow : deploymentJobs[jobs[k].id] = k
  /\ Cardinality(StoredIds) = Len(jobs)
  /\ \A id \in StoredIds : Cardinality({k \in JobsNow : tasks[k].uniqueId = id}) = 1

\* the fields of a job that are fixed at creation
Immutable(job) == <<job.id, job.prompt, job.apiProvider, job.created, job.outputDir>>

\* C15.  Jobs are independent: a step of the task of job A changes no field of
\* another job B, nor B's task, commands or output directory; and no step
\* changes the id, prompt, provider, created or outputDir of any job.
C15_JobsIndependent ==
  /\ [][\A k \in JobsNow :
          TaskStep(k) =>
            \A j \in JobsNow \ {k} :
              /\ jobs'[j] = jobs[j]
              /\ tasks'[j] = tasks[j]
              /\ execLog'[j] = execLog[j]
              /\ disk'[jobs[j].id] = disk[jobs[j].id]]_vars
  /\ [][\A k \in JobsNow : Immutable(jobs'[k]) = Immutable(jobs[k])]_vars

\* job A has failed and job B, submitted with another prompt or provider, goes on
C15_Witness ==
  \E k, j \in JobsNow :
    /\ jobs[k].status = "failed" /\ jobs[k].error = Some(ErrCommand)
    /\ jobs[j].status = "deploying" /\ jobs[j].error = Undefined
    /\ jobs[j].apiProvider # jobs[k].apiProvider

\* C16.  In every reachable state a job whose status is failed or
\* deployment_failed has error set to a non-empty failure detail.
C16_FailureHasError ==
  \A k \in JobsNow :
    jobs[k].status \in {"failed", "deployment_failed"} =>
      jobs[k].error # Undefined /\ Val(jobs[k].error) # ""

\* one job of each failure variant
C16_Witness ==
  \E k, j \in JobsNow :
    /\ jobs[k].status = "failed" /\ jobs[k].error = Some(NoFilesMessage)
    /\ jobs[j].status = "deployment_failed" /\ jobs[j].error = Some(ErrCommand)

\* C17.  In every reachable state a job has deploymentUrl and deploymentOutput
\* set if and only if its status is completed.
C17_UrlIffCompleted ==
  \A k \in JobsNow :
    /\ jobs[k].deploymentUrl # Undefined <=> jobs[k].status = "completed"
    /\ jobs[k].deploymentOutput # Undefined <=> jobs[k].status = "completed"

\* a deployed job next to one whose deployment failed
C17_Witness ==
  \E k, j \in JobsNow :
    /\ jobs[k].status = "completed" /\ jobs[k].deploymentUrl # Undefined
    /\ jobs[j].status = "deployment_failed" /\ jobs[j].deploymentUrl = Undefined

\* the filename the extraction loop gives to the i-th block of blocks
NameAt(blocks, i) == BlockFilename(blocks[i], ExtractBlocks(SubSeq(blocks, 1, i - 1), <<>>))

\* a block without filename directive and without first-line filename comment
NoSignal(b) == b.explicit = Undefined /\ firstLineMatch(Trim(b.code)) = Undefined

\* C18.  Last occurrence wins: for every filename the extraction gives to one
\* or several blocks of a raw text, the file mapping has exactly one entry
\* under that filename, and its content is the trimmed content of the last of
\* these blocks in text order.
C18_LastWins ==
  extracted # Undefined =>
    LET blocks == response.blocks
        files == Val(extracted).files
    IN  \A i \in 1..Len(blocks) :
          LET f == NameAt(blocks, i)
              last == CHOOSE j \in 1..Len(blocks) :
                        /\ NameAt(blocks, j) = f
                        /\ \A h \in (j + 1)..Len(blocks) : NameAt(blocks, h) # f
          IN  /\ Cardinality({h \in 1..Len(files) : files[h][1] = f}) = 1
              /\ ObjectGet(files, f) = Trim(blocks[last].code)

\* two blocks carry the same filename directive and different contents, the
\* later one padded
C18_Witness ==
  /\ extracted # Undefined
  /\ \E i, j \in 1..Len(response.blocks) :
       /\ i < j
       /\ response.blocks[i].explicit # Undefined
       /\ response.blocks[i].explicit = response.blocks[j].explicit
       /\ response.blocks[j].code = CodeCssPadded
       /\ response.blocks[i].code = CodeApp

\* C19.  Fallback filename generation never collides: the filenames
\* file<N><ext> synthesized for the blocks of a raw text that lack any filename
\* signal are pairwise distinct, whatever blocks occur between them.
C19_FallbackDistinct ==
  extracted # Undefined =>
    \A i, j \in 1..Len(response.blocks) :
      i < j /\ NoSignal(response.blocks[i]) /\ NoSignal(response.blocks[j]) =>
        NameAt(response.blocks, i) # NameAt(response.blocks, j)

\* C20.  Round trip of materialization: after the overlay, for every filename
\* key of the extraction result the file at that path relative to the output
\* directory exists and its content is the mapped content.
C20_RoundTrip ==
  overlaid # Undefined =>
    LET files == Val(extracted).files
    IN  \A h \in 1..Len(files) :
          /\ PathOf(files[h][1]) \in Keys(Val(overlaid))
          /\ Get(Val(overlaid), PathOf(files[h][1])) = files[h][2]

\* the stable production URL of a URL: without the preview hash, if it has
\* one, and with one trailing slash
StableUrl(url) ==
  Url(IF url.labels[Len(url.labels)] = PreviewHash
      THEN SubSeq(url.labels, 1, Len(url.labels) - 1) ELSE url.labels,
      TRUE)

\* C21.  The deployment URL is the first https URL of the deploy tool's
\* output, canonicalized by removing only a trailing preview hash before
\* .vercel.app and ensuring the trailing slash: the recorded URL of a deployed
\* job is the stable production URL of the URL its deploy command printed, and
\* a job is deployed only if the command printed one.
C21_CanonicalUrl ==
  \A k \in JobsNow :
    jobs[k].status = "completed" =>
      /\ jobs[k].deploymentOutput # Undefined
      /\ jobs[k].deploymentUrl = Some(StableUrl(Val(jobs[k].deploymentOutput)))

TimeoutMessage == "Run polling timed out after maximum attempts"

\* C22.  Polling performs at most MAX_POLLING_ATTEMPTS retrievals, each but
\* the first after one sleep of the fixed interval; when the last of them
\* returns neither a terminal status nor requires_action, the step after its
\* interval ends the job with status failed and the timeout error, and the
\* timeout error arises in no other way.
C22_PollingBounded ==
  [][\A k \in JobsNow :
       /\ tasks'[k].attempts <= MAX_POLLING_ATTEMPTS
       /\ (tasks'[k].pc = "runs_retrieve" /\ tasks[k].pc # "runs_retrieve" =>
             /\ tasks[k].pc \in {"runs_create", "sleep"}
             /\ tasks'[k].attempts = tasks[k].attempts + 1)
       /\ (tasks[k].pc = "sleep" /\ tasks[k].attempts = MAX_POLLING_ATTEMPTS /\ SleepDone(k) =>
             /\ jobs'[k].status = "failed"
             /\ jobs'[k].error = Some(TimeoutMessage)
             /\ jobs'[k].completed
             /\ tasks'[k].pc = "done")
       /\ (jobs'[k].error = Some(TimeoutMessage) /\ jobs[k].error # Some(TimeoutMessage) =>
             tasks[k].pc = "sleep" /\ tasks[k].attempts = MAX_POLLING_ATTEMPTS)]_vars

\* a job timed out while another is in its last interval
C22_Witness ==
  \E k, j \in JobsNow :
    /\ jobs[k].status = "failed" /\ jobs[k].error = Some(TimeoutMessage)
    /\ tasks[j].pc = "sleep" /\ tasks[j].attempts = MAX_POLLING_ATTEMPTS

\* the statuses of a run at which pollForRunCompletion returns a failure
RunFailureStatuses == {"failed", "cancelled", "expired", "requires_action"}

RunFailureMessages ==
  {"Assistant Run failed: failed", "Assistant Run failed: cancelled", "Assistant Run failed: expired"}

\* C23.  When a retrieval returns failed, cancelled, expired or
\* requires_action, polling stops in that step: the job ends with status
\* failed and an error naming the run failure, the task is over, and no
\* extraction result, scaffold command or deploy command ever exists for it.
C23_RunFailureStops ==
  /\ [][\A k \in JobsNow : \A st \in RunFailureStatuses :
          RunRetrieveDone(k, st) =>
            /\ jobs'[k].status = "failed"
            /\ jobs'[k].completed
            /\ jobs'[k].error \in {Some(m) : m \in RunFailureMessages}
            /\ (st # "requires_action" => jobs'[k].error = Some(RunFailedMessage(st)))
            /\ tasks'[k].pc = "done"
            /\ tasks'[k].result = Undefined]_vars
  /\ [](\A k \in JobsNow :
          jobs[k].error \in {Some(m) : m \in RunFailureMessages} =>
            /\ jobs[k].status = "failed"
            /\ tasks[k].pc = "done"
            /\ execLog[k] = <<>>
            /\ jobs[k].files = Undefined
            /\ disk[jobs[k].id] = {})

C23_Witness ==
  \E k, j \in JobsNow :
    /\ jobs[k].error = Some("Assistant Run failed: expired")
    /\ jobs[j].error = Some("Assistant Run failed: failed")

\* C24.  A job with id J that deploys successfully had the deploy CLI run once,
\* for the project ai-project-J, and its recorded deploymentUrl has the host
\* ai-project-J.vercel.app: canonicalization does not remove the job id.
C24_UrlKeepsJobId ==
  \A k \in JobsNow :
    jobs[k].status = "completed" =>
      /\ Runs(k, "npx vercel deploy") = 1
      /\ jobs[k].deploymentUrl # Undefined
      /\ Val(jobs[k].deploymentUrl).labels = ProjectName(jobs[k].id)

\* C25.  When the scaffold command, or one of the two Tailwind commands that
\* follow it for a Tailwind project that is not a Next project, fails, the job
\* becomes failed in that step and the output directory is left as it was;
\* such a job never has files or fileContents, its directory holds nothing the
\* overlay wrote, and no command of the deployment stage runs for it.
C25_ScaffoldFailureAborts ==
  /\ [][\A k \in JobsNow :
          ScaffoldFails(k) =>
            /\ jobs'[k].status = "failed"
            /\ jobs'[k].completed
            /\ tasks'[k].pc = "done"
            /\ disk' = disk
            /\ (tasks[k].pc # "scaffold" => NeedsTailwind(Val(tasks[k].result).projectInfo))]_vars
  /\ [](\A k \in JobsNow :
          jobs[k].status = "failed" /\ jobs[k].error = Some(ErrCommand) =>
            /\ jobs[k].files = Undefined
            /\ jobs[k].fileContents = Undefined
            /\ \A e \in disk[jobs[k].id] : e[2] = ScaffoldContent
            /\ Commands(k) \cap DeployCommands = {})

\* one job failed at the scaffold command, another at the Tailwind init
C25_Witness ==
  \E k, j \in JobsNow :
    /\ jobs[k].status = "failed" /\ jobs[k].error = Some(ErrCommand)
    /\ jobs[j].status = "failed" /\ jobs[j].error = Some(ErrCommand)
    /\ disk[jobs[k].id] = {}
    /\ "npx tailwindcss init -p" \in Commands(j) /\ disk[jobs[j].id] # {}

\* C26.  A raw text without fenced code blocks yields an empty file mapping
\* and the default metadata {react, javascript, null}, whatever the text.
C26_NoBlocksDefaults ==
  extracted # Undefined /\ response.blocks = <<>> =>
    /\ Val(extracted).files = <<>>
    /\ Val(extracted).projectInfo = DefaultInfo

\* C26, amended.  A raw text without fenced code blocks yields an empty file
\* mapping; its metadata is the default in each field whose keyword
\* (typescript, tailwind, next.js) the text does not contain, and typescript,
\* tailwind, next in each field whose keyword it contains.
C26_NoBlocksInferred ==
  extracted # Undefined /\ response.blocks = <<>> =>
    LET info == Val(extracted).projectInfo
        has(kw) == \E w \in response.prose : kw \in Mentions(w)
    IN  /\ Val(extracted).files = <<>>
        /\ info.language = IF has("typescript") THEN "typescript" ELSE DefaultInfo.language
        /\ info.cssFramework = IF has("tailwind") THEN Some("tailwind") ELSE DefaultInfo.cssFramework
        /\ info.framework = IF has("next.js") THEN "next" ELSE DefaultInfo.framework

\* a text without blocks that mentions Tailwind has been extracted
C26_Witness ==
  /\ extracted # Undefined
  /\ response.blocks = <<>> /\ response.prose = {"tailwind"}
  /\ Val(extracted).files = <<>>
  /\ Val(extracted).projectInfo = [DefaultInfo EXCEPT !.cssFramework = Some("tailwind")]

StatusWritten(k) == {jobs[k].statusWrites[i] : i \in 1..Len(jobs[k].statusWrites)}

\* C27.  Without a deployment credential a job goes from scaffolding to
\* completed_without_deployment and its status is never deploying: the value
\* is never assigned to the job record and no query response shows it.
C27_NeverDeploying ==
  ~VERCEL_TOKEN =>
    /\ \A k \in JobsNow : "deploying" \notin StatusWritten(k) /\ jobs[k].status # "deploying"
    /\ resp.status # Some("deploying")

\* C27, amended.  Without a deployment credential, the step that ends the
\* overlay assigns the status deploying and then completed_without_deployment
\* before any other handler runs: the job record goes from scaffolding to
\* completed_without_deployment between two turns of the event loop, and no
\* query response shows deploying.
C27_NeverShowsDeploying ==
  /\ [](~VERCEL_TOKEN =>
          /\ \A k \in JobsNow : jobs[k].status # "deploying"
          /\ resp.status # Some("deploying"))
  /\ [][\A k \in JobsNow :
          ~VERCEL_TOKEN /\ OverlaySucceeds(k) =>
            /\ jobs[k].status = "scaffolding"
            /\ jobs'[k].status = "completed_without_deployment"
            /\ jobs'[k].statusWrites =
                 jobs[k].statusWrites \o <<"deploying", "completed_without_deployment">>]_vars

\* a query has answered for a job that ended without deployment
C27_Witness ==
  /\ ~VERCEL_TOKEN
  /\ resp.kind = "query" /\ resp.status = Some("completed_without_deployment")
  /\ \E k \in JobsNow : "deploying" \in StatusWritten(k)

\* the fields of a job that the pipeline mutates
Mutable(job) ==
  <<job.status, job.statusWrites, job.files, job.fileContents, job.error, job.deploymentUrl,
    job.completed>>

\* C28.  lastUpdated is never before created and never decreases, and every
\* step that changes a job's status (or assigns it), files, fileContents,
\* error, deploymentUrl or completed leaves lastUpdated at the time of the
\* step, so that a query sees the change together with its timestamp.
C28_LastUpdatedBumped ==
  /\ [](\A k \in JobsNow : jobs[k].lastUpdated >= jobs[k].created /\ jobs[k].lastUpdated <= now)
  /\ [][\A k \in JobsNow :
          /\ jobs'[k].lastUpdated >= jobs[k].lastUpdated
          /\ (Mutable(jobs'[k]) # Mutable(jobs[k]) => jobs'[k].lastUpdated = now)]_vars
  /\ [](resp.kind = "query" /\ resp.success =>
          \E k \in JobsNow : resp.status = Some(jobs[k].status)
                               /\ resp.lastUpdated = Some(jobs[k].lastUpdated))

\* a job whose files were stored after its creation and which ended later still
C28_Witness ==
  \E k \in JobsNow :
    /\ jobs[k].status = "completed"
    /\ jobs[k].created = 1 /\ jobs[k].lastUpdated = MaxTime

HasListing == {"deploying", "completed", "completed_without_deployment", "deployment_failed"}

\* C29.  files and fileContents are assigned at most once per job, in one
\* step, the step in which the overlay ends, from the listing of the output
\* directory and before the status is assigned deploying; a job whose status is
\* deploying, completed, completed_without_deployment or deployment_failed has
\* both, every key of fileContents is in files, and no step of the deployment
\* stage changes either.
C29_FilesSetOnce ==
  /\ [](\A k \in JobsNow :
          /\ (jobs[k].files = Undefined) <=> (jobs[k].fileContents = Undefined)
          /\ (jobs[k].files # Undefined) <=> ("deploying" \in StatusWritten(k))
          /\ jobs[k].status \in HasListing =>
               /\ jobs[k].files # Undefined /\ jobs[k].fileContents # Undefined
               /\ Keys(Val(jobs[k].fileContents)) \subseteq Val(jobs[k].files))
  /\ [][\A k \in JobsNow :
          jobs'[k].files # jobs[k].files \/ jobs'[k].fileContents # jobs[k].fileContents =>
            /\ jobs[k].files = Undefined /\ jobs[k].fileContents = Undefined
            /\ jobs[k].status = "scaffolding"
            /\ OverlaySucceeds(k)
            /\ jobs'[k].files = Some(Keys(disk'[jobs[k].id]))]_vars

\* a deployed job: the deployment stage wrote .vercelignore after the listing
C29_Witness ==
  \E k \in JobsNow :
    /\ jobs[k].status = "completed"
    /\ jobs[k].files # Undefined /\ jobs[k].fileContents # Undefined
    /\ ".vercelignore" \in Keys(disk[jobs[k].id]) \ Val(jobs[k].files)
    /\ Keys(Val(jobs[k].fileContents)) # Val(jobs[k].files)

\* the content of the package.json entry of a raw text: that of its last
\* block with this filename
PackageJsonOf(text) ==
  LET at == {i \in 1..Len(text.blocks) : NameAt(text.blocks, i) = "package.json"}
  IN  IF at = {} THEN Undefined
      ELSE Some(Trim(text.blocks[CHOOSE i \in at : \A j \in at : j <= i].code))

\* C30.  Each field of the inferred metadata follows from its own signals
\* only: language is typescript iff the raw text contains "typescript" in any
\* case or an extracted filename ends in .ts or .tsx; cssFramework is tailwind
\* iff the raw text contains "tailwind" in any case or the package.json entry
\* contains "tailwindcss"; framework is next iff the raw text contains
\* "next.js" in any case or the package.json entry contains "next"; a field
\* without signal has its default.
C30_MetadataInference ==
  extracted # Undefined =>
    LET info == Val(extracted).projectInfo
        pkg == PackageJsonOf(response)
        names == {NameAt(response.blocks, i) : i \in 1..Len(response.blocks)}
        ts == TextIncludes(response, "typescript") \/ (\E f \in names : EndsWithTs(f))
        tw == TextIncludes(response, "tailwind") \/ (\E c \in pkg : "tailwindcss" \in Includes(c))
        nx == TextIncludes(response, "next.js") \/ (\E c \in pkg : "next" \in Includes(c))
    IN  /\ info.language = IF ts THEN "typescript" ELSE DefaultInfo.language
        /\ info.cssFramework = IF tw THEN Some("tailwind") ELSE DefaultInfo.cssFramework
        /\ info.framework = IF nx THEN "next" ELSE DefaultInfo.framework

\* a text whose only signal is the next dependency of its package.json, the
\* last of two blocks of that name
C30_Witness ==
  /\ extracted # Undefined
  /\ response.prose = {}
  /\ Len(response.blocks) = 2
  /\ response.blocks[1] = Block(Undefined, Some("package.json"), PkgEnv)
  /\ response.blocks[2] = Block(Undefined, Some("package.json"), PkgNext)
  /\ Val(extracted).projectInfo = [DefaultInfo EXCEPT !.framework = "next"]

\* the blocks of a well-formed raw text given by its fences
WellFormedBlocks(text) == {text.segments[i] : i \in {j \in DOMAIN text.segments : j % 2 = 1}}

\* C31.  For a raw text of well-formed fenced blocks with pairwise distinct
\* directive paths, extraction yields exactly one entry per block, keyed by
\* the block's directive path, its value the block's content trimmed; this
\* holds for contents with single backticks too, and the text between the
\* blocks never becomes a file.
C31_OneEntryPerBlock ==
  extracted # Undefined =>
    LET files == Val(extracted).files
        blocks == WellFormedBlocks(response)
    IN  /\ Len(files) = Cardinality(blocks)
        /\ ObjectKeys(files) = {Val(b.explicit) : b \in blocks}
        /\ \A b \in blocks : ObjectGet(files, Val(b.explicit)) = Trim(b.code)

\* C32.  The result of the overlay does not depend on the order of the
\* writes: distinct keys of an extraction result resolve to distinct paths,
\* and the entries written in any order leave the directory contents that
\* the overlay left.
C32_OrderIndependent ==
  overlaid # Undefined =>
    LET files == Val(extracted).files
        scaffolded == Overlay({}, ScaffoldFiles(Val(extracted).projectInfo))
    IN  /\ \A i, j \in 1..Len(files) : i # j => PathOf(files[i][1]) # PathOf(files[j][1])
        /\ \A p \in Permutations(1..Len(files)) :
             Overlay(scaffolded, [i \in 1..Len(files) |-> files[p[i]]]) = Val(overlaid)

\* C33.  Every file the overlay creates lies inside the job's own output
\* directory, for every filename the extraction can produce, '..' segments
\* and a leading '/' included.
C33_OverlayStaysInside ==
  overlaid # Undefined =>
    /\ \A h \in 1..Len(Val(extracted).files) :
         ~LeavesProjectDir(PathOf(Val(extracted).files[h][1]))
    /\ \A path \in Keys(Val(overlaid)) : ~LeavesProjectDir(path)

PastScaffolding == {"completed", "completed_without_deployment", "deployment_failed"}

\* C34.  In the pipeline the recoverable inconsistencies are repaired between
\* the overlay and the terminal state: when a job that got past scaffolding
\* ends, every stylesheet a component file of its directory imports exists
\* there and the directory of a Vite project holds a build-tool config.
C34_RepairedInPipeline ==
  \A k \in JobsNow :
    jobs[k].status \in PastScaffolding =>
      LET dir == disk[jobs[k].id]
      IN  /\ \A c \in ComponentFiles(dir) : \A f \in StyleImports(Get(dir, c)) :
               ImportedStylePath(c, f) \in Keys(dir)
          /\ "vite.config.js" \in Keys(dir) \/ "vite.config.ts" \in Keys(dir)

\* a step of one of the three repair functions that writes to the directory
RepairStep == ValidateComponentImports \/ EnsureViteConfig \/ (\E error \in BuildErrors : BuildFails(error))

\* C35.  The repair functions only add files: no step of
\* validateComponentImports, ensureViteConfig or testBuildProject changes the
\* content of a file the overlay wrote from the extraction result, and a
\* placeholder is written only at a path where no file existed.
C35_RepairsOnlyAdd ==
  [][RepairStep =>
       LET files == Val(extracted).files
           old == Val(overlaid)
           new == Val(overlaid')
       IN  /\ \A h \in 1..Len(files) : Get(new, PathOf(files[h][1])) = Get(old, PathOf(files[h][1]))
           /\ \A path \in Keys(old) :
                Get(new, path) \in {StylePlaceholder, BuildPlaceholder} => Get(old, path) = Get(new, path)]_vars

DeploymentLog(k) ==
  LET RECURSIVE Sel(_)
      Sel(log) == IF log = <<>> THEN <<>>
                  ELSE IF Head(log) \in DeployCommands THEN <<Head(log)>> \o Sel(Tail(log))
                  ELSE Sel(Tail(log))
  IN  Sel(execLog[k])

\* C37.  deployToVercel runs dependency install, plugin install, removal of
\* .vercel, writing of .vercelignore and the deploy CLI in this order: the
\* deploy CLI is started only in the step in which the plugin install has
\* succeeded, after a successful dependency install, and when it is started
\* the ignore file is written and the project directory holds no .vercel
\* directory.
C37_DeploymentOrder ==
  /\ [](\A k \in JobsNow :
          IsPrefix(DeploymentLog(k),
                   <<"npm install", "npm install @vitejs/plugin-react --save-dev", "npx vercel deploy">>))
  /\ [][\A k \in JobsNow :
          Runs(k, "npx vercel deploy")' > Runs(k, "npx vercel deploy") =>
            /\ tasks[k].pc = "plugin_install"
            /\ ".vercelignore" \in Keys(disk'[jobs[k].id])
            /\ \A path \in Keys(disk'[jobs[k].id]) : ~InVercelDir(path)]_vars

\* C38.  No status query returns status pending: the submit handler's call of
\* processGenerateAndDeploy sets the stored status to generating before the
\* handler sends its response, which still reports pending, and before any
\* query runs; no stored job is ever observed with status pending.
C38_NeverObservedPending ==
  /\ \A k \in JobsNow : jobs[k].status # "pending" /\ jobs[k].statusWrites[1] = "pending"
  /\ resp.kind = "query" => resp.status # Some("pending")
  /\ resp.kind = "submit" /\ resp.success =>
       /\ resp.status = Some("pending")
       /\ \E k \in JobsNow : resp.jobId = Some(jobs[k].id) /\ jobs[k].status = "generating"

\* a query answered generating for a job
C38_Witness ==
  /\ resp.kind = "query" /\ resp.success
  /\ resp.status = Some("generating")
  /\ \E k \in JobsNow : resp.jobId = Some(jobs[k].id) /\ jobs[k].status = "generating"

\* C39.  A synthesized default filename never equals a filename already in
\* the mapping and is never used again, so no block is lost to a collision of
\* default names: the mapping has as many entries as there are distinct
\* explicitly given filenames plus blocks without any filename signal.
C39_NoBlockLost ==
  extracted # Undefined =>
    LET blocks == response.blocks
        unnamed == {i \in 1..Len(blocks) : NoSignal(blocks[i])}
        named == {NameAt(blocks, i) : i \in (1..Len(blocks)) \ unnamed}
    IN  /\ \A i \in unnamed :
             NameAt(blocks, i) \notin ObjectKeys(ExtractBlocks(SubSeq(blocks, 1, i - 1), <<>>))
        /\ Len(Val(extracted).files) = Cardinality(named) + Cardinality(unnamed)

\* C40.  URL canonicalization is idempotent: applied to a URL that is its own
\* output, the recorded deploymentUrl of a deployed job, it returns that URL
\* unchanged.
C40_CanonicalIdempotent ==
  \A k \in JobsNow :
    jobs[k].deploymentUrl # Undefined =>
      Canonical(Val(jobs[k].deploymentUrl)) = Val(jobs[k].deploymentUrl)

====
